---- MODULE Spec2Model ----
(***************************************************************************)
(* Verification model of the amortization engine of investment/main.py.    *)
(*                                                                         *)
(* The engine is Python arithmetic on ints and floats.  A number is        *)
(* modelled as a dyadic rational m * 2^e tagged with its Python type:      *)
(* ints are exact, and every operation that yields a float rounds its      *)
(* exact result to Prec significant bits, to nearest, ties to even, as     *)
(* IEEE-754 does with 53 bits.  The exponent is unbounded (no overflow to  *)
(* infinity, no underflow).  A call either returns a number or raises.     *)
(***************************************************************************)
EXTENDS Integers, Sequences, FiniteSets, TLC

\* Significand width of the modelled float, in bits.
Prec == 4

\* Guard bits kept below the significand before rounding.
Guard == Prec + 3

-----------------------------------------------------------------------------
(* Integer helpers *)

RECURSIVE Pow2(_)
Pow2(k) == IF k <= 0 THEN 1 ELSE 2 * Pow2(k - 1)

Abs(x) == IF x < 0 THEN -x ELSE x

Sgn(x) == IF x < 0 THEN -1 ELSE IF x = 0 THEN 0 ELSE 1

Max2(a, b) == IF a >= b THEN a ELSE b

RECURSIVE BitLen(_)
BitLen(x) == IF x = 0 THEN 0 ELSE 1 + BitLen(x \div 2)

\* The canonical pair <<m, e>> of the dyadic m * 2^e: m odd, or <<0, 0>>.
RECURSIVE Norm(_, _)
Norm(m, e) ==
    IF m = 0 THEN <<0, 0>>
    ELSE IF m % 2 = 0 THEN Norm(m \div 2, e + 1)
    ELSE <<m, e>>

-----------------------------------------------------------------------------
(* Python numbers *)

\* An int n.
I(n) == LET p == Norm(n, 0) IN [t |-> "int", m |-> p[1], e |-> p[2]]

\* The float m * 2^e; the caller gives a representable value.
F(m, e) == LET p == Norm(m, e) IN [t |-> "float", m |-> p[1], e |-> p[2]]

IsInt(a) == a.t = "int"

IsZero(a) == a.m = 0

\* Python's == on numbers compares values, whatever the types.
NumEq(a, b) == a.m = b.m /\ a.e = b.e

\* Operands and intermediate results are bound through singleton sets
\* (CHOOSE r \in {body : x \in {operand}} : TRUE), so that each is
\* evaluated once however often the body uses it.

\* The value held exactly by a number whose magnitude lies in
\* [T * 2^E, (T+1) * 2^E), and is T * 2^E itself when sticky is FALSE,
\* rounded to Prec bits, to nearest, ties to even.  When sticky is TRUE
\* the caller gives T at least Prec + 1 bits.
RoundTo(sign, T0, E, sticky) ==
    CHOOSE r \in
      { IF k <= 0
        THEN F(sign * T, E)
        ELSE LET q    == T \div Pow2(k)
                 rem  == T % Pow2(k)
                 half == Pow2(k - 1)
                 up   == \/ rem > half
                         \/ rem = half /\ (sticky \/ q % 2 = 1)
             IN  F(sign * (IF up THEN q + 1 ELSE q), E + k)
        : T \in {T0}, k \in {BitLen(T0) - Prec} } : TRUE

\* The exact sum of two dyadics, as <<sign, T, E, sticky>>.  hi is the
\* operand with the larger exponent; when lo lies wholly below the guard
\* bits of hi it only sets the sticky bit.
ExactSum(ma, ea, mb, eb) ==
    IF mb = 0 THEN <<Sgn(ma), Abs(ma), ea, FALSE>>
    ELSE IF ma = 0 THEN <<Sgn(mb), Abs(mb), eb, FALSE>>
    ELSE LET hiM == IF ea >= eb THEN ma ELSE mb
             hiE == IF ea >= eb THEN ea ELSE eb
             loM == IF ea >= eb THEN mb ELSE ma
             loE == IF ea >= eb THEN eb ELSE ea
             d   == hiE - loE
         IN  IF d < BitLen(Abs(loM)) + Guard
             THEN CHOOSE r \in {<<Sgn(s), Abs(s), loE, FALSE>> :
                                s \in {hiM * Pow2(d) + loM}} : TRUE
             ELSE IF Sgn(hiM) = Sgn(loM)
             THEN <<Sgn(hiM), Abs(hiM) * Pow2(Guard), hiE - Guard, TRUE>>
             ELSE <<Sgn(hiM), Abs(hiM) * Pow2(Guard) - 1, hiE - Guard, TRUE>>

\* a + b: exact on two ints, rounded otherwise.
Add(a0, b0) ==
    CHOOSE r \in
      { IF IsInt(a) /\ IsInt(b)
        THEN I(s[1] * s[2] * Pow2(s[3]))
        ELSE RoundTo(s[1], s[2], s[3], s[4])
        : s \in {ExactSum(a.m, a.e, b.m, b.e) : a \in {a0}, b \in {b0}},
          a \in {a0}, b \in {b0} } : TRUE

Neg(a) == [a EXCEPT !.m = -a.m]

\* a - b
Sub(a, b) == Add(a, Neg(b))

\* a * b: exact on two ints, rounded otherwise.
Mul(a0, b0) ==
    CHOOSE r \in
      { IF IsInt(a) /\ IsInt(b)
        THEN I(a.m * b.m * Pow2(a.e + b.e))
        ELSE RoundTo(Sgn(a.m) * Sgn(b.m), Abs(a.m) * Abs(b.m),
                     a.e + b.e, FALSE)
        : a \in {a0}, b \in {b0} } : TRUE

\* a / b for b # 0: true division, always a float.
Div(a0, b0) ==
    CHOOSE r \in
      { IF a.m = 0 THEN F(0, 0)
        ELSE LET na == Abs(a.m)
                 nb == Abs(b.m)
                 s  == Max2(0, Prec + 2 + BitLen(nb) - BitLen(na))
             IN  RoundTo(Sgn(a.m) * Sgn(b.m), (na * Pow2(s)) \div nb,
                         a.e - b.e - s, (na * Pow2(s)) % nb # 0)
        : a \in {a0}, b \in {b0} } : TRUE

\* The sign of a - b: how Python orders two numbers.
Cmp(a0, b0) ==
    CHOOSE r \in { ExactSum(a.m, a.e, -b.m, b.e)[1]
                   : a \in {a0}, b \in {b0} } : TRUE

Geq(a, b) == Cmp(a, b) >= 0

Gt(a, b) == Cmp(a, b) > 0

\* The integer a number holds, for a whole number.
ToInt(a0) == CHOOSE r \in {a.m * Pow2(a.e) : a \in {a0}} : TRUE


\* Limbs of an exact power are LimbBase = 2^15 wide.
LimbBase == Pow2(15)

\* The limbs of b * m + c below Len(b) and the carry out of them, for
\* little-endian limbs b and m, c below LimbBase; by halves, so that the
\* nesting stays shallow on long numbers.
RECURSIVE MulDigits(_, _, _)
MulDigits(b, m, c) ==
    IF Len(b) = 0 THEN [d |-> <<>>, c |-> c]
    ELSE IF Len(b) = 1
    THEN CHOOSE r \in { [d |-> <<t % LimbBase>>, c |-> t \div LimbBase]
                        : t \in {b[1] * m + c} } : TRUE
    ELSE CHOOSE r \in
           { CHOOSE q \in
               { CHOOSE u \in { [d |-> lo.d \o hi.d, c |-> hi.c]
                                : hi \in {MulDigits(SubSeq(b, h + 1, Len(b)),
                                                    m, lo.c)} } : TRUE
                 : lo \in {MulDigits(SubSeq(b, 1, h), m, c)} } : TRUE
             : h \in {Len(b) \div 2} } : TRUE

\* b * m + c on little-endian limbs, m and c below LimbBase.
BigMulSmall(b, m, c) ==
    CHOOSE r \in { IF q.c = 0 THEN q.d ELSE Append(q.d, q.c)
                   : q \in {MulDigits(b, m, c)} } : TRUE

\* acc * m ^ n in limbs.
RECURSIVE BigTimesPow(_, _, _)
BigTimesPow(acc, m, n) ==
    IF n = 0 THEN acc
    ELSE IF n = 1 THEN BigMulSmall(acc, m, 0)
    ELSE CHOOSE r \in { BigTimesPow(half, m, n - n \div 2)
                        : half \in {BigTimesPow(acc, m, n \div 2)} } : TRUE

\* m ^ n in limbs.
BigPow(m, n) == BigTimesPow(<<1>>, m, n)

\* a ** n for a whole n >= 0: exact on an int base, else the exact power
\* rounded once (libm's pow on these arguments).
Pow(a0, n0) ==
    CHOOSE r \in
      { IF n = 0 THEN (IF IsInt(a) THEN I(1) ELSE F(1, 0))
        ELSE IF a.m = 0 THEN a
        ELSE CHOOSE q \in
          { LET len  == Len(b)
                sign == IF a.m < 0 /\ n % 2 = 1 THEN -1 ELSE 1
            IN  IF IsInt(a)
                THEN I(sign * b[1] * Pow2(a.e * n))
                ELSE IF len = 1
                THEN RoundTo(sign, b[1], a.e * n, FALSE)
                ELSE RoundTo(sign, b[len] * LimbBase + b[len - 1],
                             a.e * n + 15 * (len - 2),
                             \E i \in 1..(len - 2) : b[i] # 0)
            : b \in {BigPow(Abs(a.m), n)} } : TRUE
        : a \in {a0}, n \in {n0} } : TRUE

-----------------------------------------------------------------------------
(* Exact arithmetic: natural numbers of any size as little-endian limbs,   *)
(* without leading zero limbs (0 is the empty sequence), and fractions of  *)
(* them.  It evaluates the engine's expressions as real numbers.           *)

\* A number below 2^31 in limbs.
BigFromInt(n) ==
    IF n = 0 THEN <<>>
    ELSE IF n < LimbBase THEN <<n>>
    ELSE IF n \div LimbBase < LimbBase THEN <<n % LimbBase, n \div LimbBase>>
    ELSE <<n % LimbBase, (n \div LimbBase) % LimbBase,
           n \div (LimbBase * LimbBase)>>

\* a without its leading zero limbs.
BigTrim(a) ==
    CHOOSE r \in { SubSeq(a, 1, k)
                   : k \in {Len(a) - Cardinality(
                              {i \in 1..Len(a) :
                                 \A j \in i..Len(a) : a[j] = 0})} } : TRUE

\* a padded with zero limbs to n limbs.
BigPad(a, n) == a \o [i \in 1..(n - Len(a)) |-> 0]

\* The limbs of a + b + c and the carry out of them, for a and b of one
\* length and a carry c of 0 or 1; by halves.
RECURSIVE AddDigits(_, _, _)
AddDigits(a, b, c) ==
    IF Len(a) = 0 THEN [d |-> <<>>, c |-> c]
    ELSE IF Len(a) = 1
    THEN CHOOSE r \in { [d |-> <<t % LimbBase>>, c |-> t \div LimbBase]
                        : t \in {a[1] + b[1] + c} } : TRUE
    ELSE CHOOSE r \in
           { CHOOSE q \in
               { CHOOSE u \in { [d |-> lo.d \o hi.d, c |-> hi.c]
                                : hi \in {AddDigits(SubSeq(a, h + 1, Len(a)),
                                                    SubSeq(b, h + 1, Len(b)),
                                                    lo.c)} } : TRUE
                 : lo \in {AddDigits(SubSeq(a, 1, h), SubSeq(b, 1, h), c)} }
               : TRUE
             : h \in {Len(a) \div 2} } : TRUE

\* a + b
BigAdd(a, b) ==
    CHOOSE r \in
      { CHOOSE u \in { IF q.c = 0 THEN q.d ELSE Append(q.d, q.c)
                       : q \in {AddDigits(BigPad(a, n), BigPad(b, n), 0)} }
          : TRUE
        : n \in {Max2(Len(a), Len(b))} } : TRUE

\* The limbs of a - b - c and the borrow out of them, for a and b of one
\* length and a borrow c of 0 or 1; by halves.
RECURSIVE SubDigits(_, _, _)
SubDigits(a, b, c) ==
    IF Len(a) = 0 THEN [d |-> <<>>, c |-> c]
    ELSE IF Len(a) = 1
    THEN CHOOSE r \in { [d |-> <<(t + LimbBase) % LimbBase>>,
                         c |-> IF t < 0 THEN 1 ELSE 0]
                        : t \in {a[1] - b[1] - c} } : TRUE
    ELSE CHOOSE r \in
           { CHOOSE q \in
               { CHOOSE u \in { [d |-> lo.d \o hi.d, c |-> hi.c]
                                : hi \in {SubDigits(SubSeq(a, h + 1, Len(a)),
                                                    SubSeq(b, h + 1, Len(b)),
                                                    lo.c)} } : TRUE
                 : lo \in {SubDigits(SubSeq(a, 1, h), SubSeq(b, 1, h), c)} }
               : TRUE
             : h \in {Len(a) \div 2} } : TRUE

\* -1, 0 or 1 as a is below, equal to or above b.
BigCmp(a, b) ==
    IF Len(a) # Len(b) THEN (IF Len(a) < Len(b) THEN -1 ELSE 1)
    ELSE CHOOSE r \in
           { IF D = {} THEN 0
             ELSE CHOOSE q \in
                    { IF a[k] < b[k] THEN -1 ELSE 1
                      : k \in {CHOOSE i \in D : \A j \in D : j <= i} } : TRUE
             : D \in {{i \in 1..Len(a) : a[i] # b[i]}} } : TRUE

\* a - b for a >= b
BigSub(a, b) ==
    CHOOSE r \in
      { BigTrim(SubDigits(a, p, 0).d) : p \in {BigPad(b, Len(a))} } : TRUE

\* The limbs of (c * LimbBase^Len(a) + a) \div m and the remainder, for
\* m below LimbBase and c below m; by halves, the high limbs first.
RECURSIVE DivDigits(_, _, _)
DivDigits(a, m, c) ==
    IF Len(a) = 0 THEN [d |-> <<>>, c |-> c]
    ELSE IF Len(a) = 1
    THEN CHOOSE r \in { [d |-> <<t \div m>>, c |-> t % m]
                        : t \in {c * LimbBase + a[1]} } : TRUE
    ELSE CHOOSE r \in
           { CHOOSE q \in
               { CHOOSE u \in { [d |-> lo.d \o hi.d, c |-> lo.c]
                                : lo \in {DivDigits(SubSeq(a, 1, h), m,
                                                    hi.c)} } : TRUE
                 : hi \in {DivDigits(SubSeq(a, h + 1, Len(a)), m, c)} }
               : TRUE
             : h \in {Len(a) \div 2} } : TRUE

\* a \div m for m below LimbBase.
BigDivSmall(a, m) == BigTrim(DivDigits(a, m, 0).d)

\* a * b, by halves of b.
RECURSIVE BigMul(_, _)
BigMul(a, b) ==
    IF Len(a) = 0 \/ Len(b) = 0 THEN <<>>
    ELSE IF Len(b) = 1 THEN BigMulSmall(a, b[1], 0)
    ELSE CHOOSE r \in
           { CHOOSE q \in
               { BigAdd(lo, IF hi = <<>> THEN <<>>
                            ELSE [i \in 1..h |-> 0] \o hi)
                 : lo \in {BigTrim(BigMul(a, SubSeq(b, 1, h)))},
                   hi \in {BigMul(a, SubSeq(b, h + 1, Len(b)))} } : TRUE
             : h \in {Len(b) \div 2} } : TRUE

-----------------------------------------------------------------------------
(* Outcome of a call: a returned value or a raised exception *)

Ok(v) == [exc |-> "none", val |-> v]

Raise(x) == [exc |-> x, val |-> I(0)]

Returned(o) == o.exc = "none"

-----------------------------------------------------------------------------
(* The engine *)

\* calculate_mortgage_payment(principal, annual_rate, years); years * 12
\* is a whole number >= 0.
calculate_mortgage_payment(principal, annual_rate, years) ==
    LET monthly_rate == Div(annual_rate, I(12))
        num_payments == Mul(years, I(12))
        growth       == Pow(Add(I(1), monthly_rate), ToInt(num_payments))
        denom        == Sub(growth, I(1))
    IN  IF IsZero(monthly_rate)
        THEN IF IsZero(num_payments)
             THEN Raise("ZeroDivisionError")
             ELSE Ok(Div(principal, num_payments))
        ELSE IF IsZero(denom)
             THEN Raise("ZeroDivisionError")
             ELSE Ok(Div(Mul(principal, Mul(monthly_rate, growth)), denom))

\* The for loop of calculate_remaining_principal, from iteration i on.
RECURSIVE PayDown(_, _, _, _, _)
PayDown(remaining, i, months_paid, monthly_payment, base) ==
    IF i >= months_paid THEN remaining
    ELSE PayDown(Sub(remaining,
                     Mul(monthly_payment, Pow(base, months_paid - 1 - i))),
                 i + 1, months_paid, monthly_payment, base)

\* AmortizedBalance counting one payment too many at rate 0.
AmortizedBalance_extra_payment(principal, annual_rate, years, months_paid) ==
    LET monthly_rate    == Div(annual_rate, I(12))
        monthly_payment ==
            calculate_mortgage_payment(principal, annual_rate, years)
        base            == Add(I(1), monthly_rate)
    IN  IF ~Returned(monthly_payment) THEN monthly_payment
        ELSE IF IsZero(monthly_rate)
        THEN Ok(Sub(principal,
                    Mul(monthly_payment.val, Add(months_paid, I(1)))))
        ELSE IF ~IsInt(months_paid)
        THEN Raise("TypeError")
        ELSE Ok(PayDown(Mul(principal, Pow(base, ToInt(months_paid))),
                        0, ToInt(months_paid), monthly_payment.val, base))

\* AmortizedBalance compounding the principal one month too long.
AmortizedBalance_extra_month(principal, annual_rate, years, months_paid) ==
    LET monthly_rate    == Div(annual_rate, I(12))
        monthly_payment ==
            calculate_mortgage_payment(principal, annual_rate, years)
        base            == Add(I(1), monthly_rate)
    IN  IF ~Returned(monthly_payment) THEN monthly_payment
        ELSE IF IsZero(monthly_rate)
        THEN Ok(Sub(principal, Mul(monthly_payment.val, months_paid)))
        ELSE IF ~IsInt(months_paid)
        THEN Raise("TypeError")
        ELSE Ok(PayDown(Mul(principal, Pow(base, ToInt(months_paid) + 1)),
                        0, ToInt(months_paid), monthly_payment.val, base))

\* calculate_remaining_principal past its early return (lines 17-28).
AmortizedBalance(principal, annual_rate, years, months_paid) ==
    LET monthly_rate    == Div(annual_rate, I(12))
        monthly_payment ==
            calculate_mortgage_payment(principal, annual_rate, years)
        base            == Add(I(1), monthly_rate)
    IN  IF ~Returned(monthly_payment) THEN monthly_payment
        ELSE IF IsZero(monthly_rate)
        THEN Ok(Sub(principal, Mul(monthly_payment.val, months_paid)))
        ELSE IF ~IsInt(months_paid)
        THEN Raise("TypeError")
        ELSE Ok(PayDown(Mul(principal, Pow(base, ToInt(months_paid))),
                        0, ToInt(months_paid), monthly_payment.val, base))

\* calculate_remaining_principal returning 0 only past the term (> for >=).
calculate_remaining_principal_past_term(principal, annual_rate, years, months_paid) ==
    IF Gt(months_paid, Mul(years, I(12)))
    THEN Ok(I(0))
    ELSE AmortizedBalance(principal, annual_rate, years, months_paid)

\* calculate_remaining_principal(principal, annual_rate, years, months_paid);
\* months_paid is a whole number >= 0.
calculate_remaining_principal(principal, annual_rate, years, months_paid) ==
    IF Geq(months_paid, Mul(years, I(12)))
    THEN Ok(I(0))
    ELSE AmortizedBalance(principal, annual_rate, years, months_paid)

\* The engine on exact numbers.  An exact number is a fraction
\* [neg, num, den] of limb numbers, den > 0; an exact rate is a pair
\* <<numerator, denominator>> of small integers.

Frac(num, den) == [neg |-> FALSE, num |-> num, den |-> den]

\* x - y / x.den for a limb number y.
FracLess(x, y) ==
    IF x.neg THEN [x EXCEPT !.num = BigAdd(x.num, y)]
    ELSE IF BigCmp(x.num, y) >= 0 THEN [x EXCEPT !.num = BigSub(x.num, y)]
    ELSE [x EXCEPT !.neg = TRUE, !.num = BigSub(y, x.num)]

\* calculate_mortgage_payment_exact charging the annual rate every month.
calculate_mortgage_payment_exact_annual_rate(principal, annual_rate, years) ==
    LET rate_num     == annual_rate[1]
        rate_den     == annual_rate[2]
        num_payments == years * 12
    IN  IF rate_num = 0
        THEN Frac(BigFromInt(principal), BigFromInt(num_payments))
        ELSE CHOOSE r \in
               { Frac(BigMul(BigFromInt(principal * rate_num), growth),
                      BigMulSmall(BigSub(growth,
                                         BigPow(rate_den, num_payments)),
                                  rate_den, 0))
                 : growth \in {BigPow(rate_den + rate_num, num_payments)} }
               : TRUE

\* calculate_mortgage_payment (lines 4-10) on an integer principal >= 0,
\* an exact annual_rate >= 0 and an integer years > 0.  With
\* 1 + monthly_rate = a / b the quotient of line 10 is
\* principal * monthly_rate * a^n / (a^n - b^n).
calculate_mortgage_payment_exact(principal, annual_rate, years) ==
    LET rate_num     == annual_rate[1]
        rate_den     == annual_rate[2] * 12
        num_payments == years * 12
    IN  IF rate_num = 0
        THEN Frac(BigFromInt(principal), BigFromInt(num_payments))
        ELSE CHOOSE r \in
               { Frac(BigMul(BigFromInt(principal * rate_num), growth),
                      BigMulSmall(BigSub(growth,
                                         BigPow(rate_den, num_payments)),
                                  rate_den, 0))
                 : growth \in {BigPow(rate_den + rate_num, num_payments)} }
               : TRUE

\* PayDownExact leaving the last month's payment out.
RECURSIVE PayDownExact_one_short(_, _, _, _, _, _)
PayDownExact_one_short(remaining, i, months_paid, term, a, b) ==
    IF i + 1 >= months_paid THEN remaining
    ELSE CHOOSE r \in
           { PayDownExact_one_short(less, i + 1, months_paid,
                          BigDivSmall(BigMulSmall(term, b, 0), a), a, b)
             : less \in {FracLess(remaining, term)} } : TRUE

\* Lines 25-26 on the numerator of remaining over
\* monthly_payment.den * b^months_paid, with 1 + monthly_rate = a / b: term
\* is the numerator of monthly_payment * (a/b)^(months_paid - 1 - i), which
\* the next month divides by a / b (the division by a leaves no remainder).
RECURSIVE PayDownExact(_, _, _, _, _, _)
PayDownExact(remaining, i, months_paid, term, a, b) ==
    IF i >= months_paid THEN remaining
    ELSE CHOOSE r \in
           { PayDownExact(less, i + 1, months_paid,
                          BigDivSmall(BigMulSmall(term, b, 0), a), a, b)
             : less \in {FracLess(remaining, term)} } : TRUE

\* calculate_remaining_principal (lines 12-28) on exact numbers.
calculate_remaining_principal_exact(principal, annual_rate, years, months_paid) ==
    LET rate_num == annual_rate[1]
        rate_den == annual_rate[2] * 12
    IN  IF months_paid >= years * 12 THEN Frac(<<>>, <<1>>)
        ELSE CHOOSE r \in
          { IF rate_num = 0
            THEN FracLess(Frac(BigMul(BigFromInt(principal), pay.den),
                               pay.den),
                          BigMul(pay.num, BigFromInt(months_paid)))
            ELSE PayDownExact(
                   Frac(BigTimesPow(BigMul(BigFromInt(principal), pay.den),
                                    rate_den + rate_num, months_paid),
                        BigTimesPow(pay.den, rate_den, months_paid)),
                   0, months_paid,
                   IF months_paid = 0 THEN <<>>
                   ELSE BigMulSmall(BigTimesPow(pay.num, rate_den + rate_num,
                                                months_paid - 1),
                                    rate_den, 0),
                   rate_den + rate_num, rate_den)
            : pay \in {calculate_mortgage_payment_exact(
                           principal, annual_rate, years)} } : TRUE

\* buy_equity_gain leaving the HOA fees out of the money invested.
buy_equity_gain_without_hoa(net_from_sale, down_payment, total_mortgage_payments, total_property_tax, total_hoa) ==
    Sub(net_from_sale,
        Add(Add(down_payment, total_mortgage_payments), total_property_tax))

\* Line 78: the equity gain of buying and selling.
buy_equity_gain(net_from_sale, down_payment, total_mortgage_payments, total_property_tax, total_hoa) ==
    Sub(net_from_sale,
        Add(Add(Add(down_payment, total_mortgage_payments),
                total_property_tax), total_hoa))

\* investment_future_value compounding over the purchase year as well.
investment_future_value_extra_year(down_payment, stock_investment_return, holding_period_years) ==
    Mul(down_payment,
        Pow(Add(I(1), stock_investment_return),
            ToInt(holding_period_years) + 1))

\* Line 89: the value of the invested down payment after the holding period.
investment_future_value(down_payment, stock_investment_return, holding_period_years) ==
    Mul(down_payment,
        Pow(Add(I(1), stock_investment_return), ToInt(holding_period_years)))

\* Lines 54-131 of analyze_housing_investment(**a) but for its two calls:
\* the results, given what the calls of lines 58 and 67 returned.
housing_results(a, monthly_payment, remaining_balance) ==
    LET down_payment    == Mul(a.purchase_price, a.down_payment_percent)
        loan_amount     == Sub(a.purchase_price, down_payment)
        total_months    == Mul(a.holding_period_years, I(12))
        total_mortgage_payments == Mul(monthly_payment, total_months)
        total_property_tax == Mul(a.property_tax_annual, a.holding_period_years)
        total_hoa       == Mul(a.hoa_monthly, total_months)
        selling_costs   == Mul(a.sale_price, a.selling_cost_percent)
        costs_buying    == Add(Add(Add(down_payment, total_mortgage_payments),
                                   total_property_tax), total_hoa)
        net_from_sale   == Sub(Sub(a.sale_price, selling_costs),
                               remaining_balance)
        equity_gain     == buy_equity_gain(net_from_sale, down_payment,
                                           total_mortgage_payments,
                                           total_property_tax, total_hoa)
        rent_savings    == Mul(a.monthly_rent, total_months)
        buy_total_benefit == Add(equity_gain, rent_savings)
        rent_cost       == Mul(a.monthly_rent, total_months)
        future_value    == investment_future_value(
                               down_payment, a.stock_investment_return,
                               a.holding_period_years)
        investment_gain == Sub(future_value, down_payment)
        rent_invest_net == Sub(investment_gain, rent_cost)
    IN  [inputs |->
           [purchase_price |-> a.purchase_price,
            down_payment |-> down_payment,
            loan_amount |-> loan_amount,
            monthly_payment |-> monthly_payment,
            holding_period_years |-> a.holding_period_years,
            sale_price |-> a.sale_price,
            monthly_rent |-> a.monthly_rent,
            stock_investment_return |-> a.stock_investment_return,
            selling_cost_percent |-> a.selling_cost_percent,
            loan_interest_rate |-> a.loan_interest_rate,
            loan_term_years |-> a.loan_term_years],
         buy_and_sell |->
           [total_payments |-> costs_buying,
            mortgage_payments |-> total_mortgage_payments,
            property_tax |-> total_property_tax,
            hoa_fees |-> total_hoa,
            remaining_balance |-> remaining_balance,
            selling_costs |-> selling_costs,
            net_from_sale |-> net_from_sale,
            equity_gain |-> equity_gain,
            rent_savings |-> rent_savings,
            total_benefit |-> buy_total_benefit],
         rent_only |->
           [total_rent |-> rent_cost,
            net_worth_change |-> Neg(rent_cost)],
         rent_and_invest |->
           [total_rent |-> rent_cost,
            investment_value |-> future_value,
            investment_gain |-> investment_gain,
            net_worth_change |-> rent_invest_net]]

\* analyze_housing_investment(**a); a.holding_period_years is a whole
\* number >= 0.
analyze_housing_investment(a) ==
    LET loan_amount     == Sub(a.purchase_price,
                               Mul(a.purchase_price, a.down_payment_percent))
        monthly_payment == calculate_mortgage_payment(
                               loan_amount, a.loan_interest_rate,
                               a.loan_term_years)
        remaining_balance == calculate_remaining_principal(
                               loan_amount, a.loan_interest_rate,
                               a.loan_term_years,
                               Mul(a.holding_period_years, I(12)))
    IN  IF ~Returned(monthly_payment) THEN monthly_payment
        ELSE IF ~Returned(remaining_balance) THEN remaining_balance
        ELSE Ok(housing_results(a, monthly_payment.val,
                                remaining_balance.val))

\* MaxByValue letting a later equal element replace the maximum.
RECURSIVE MaxByValue_last_wins(_, _, _)
MaxByValue_last_wins(options, i, best) ==
    IF i > Len(options) THEN best
    ELSE MaxByValue_last_wins(options, i + 1,
                    IF Geq(options[i][2], best[2]) THEN options[i] ELSE best)

\* max(options, key=lambda x: x[1]) from position i on, best being the
\* maximum so far: a later element replaces it only when strictly greater.
RECURSIVE MaxByValue(_, _, _)
MaxByValue(options, i, best) ==
    IF i > Len(options) THEN best
    ELSE MaxByValue(options, i + 1,
                    IF Gt(options[i][2], best[2]) THEN options[i] ELSE best)

\* print_results(results): the name of the best option it prints, or the
\* exception one of its divisions raises before that line.
print_results(results) ==
    LET inputs == results.inputs
        buy    == results.buy_and_sell
        rent   == results.rent_only
        invest == results.rent_and_invest
        options == << <<"Buy and Sell", buy.total_benefit>>,
                      <<"Rent Only", rent.net_worth_change>>,
                      <<"Rent and Invest", invest.net_worth_change>> >>
    IN  IF IsZero(inputs.purchase_price) THEN Raise("ZeroDivisionError")
        ELSE IF IsZero(inputs.holding_period_years)
        THEN Raise("ZeroDivisionError")
        ELSE [exc |-> "none", val |-> MaxByValue(options, 2, options[1])]

\* Line 346: the value of total_months deposits, each made at the start of
\* its month; evaluated from left to right as Python does.
annuity_due_value(monthly_savings, monthly_rate, total_months) ==
    Mul(Div(Mul(monthly_savings,
                Sub(Pow(Add(I(1), monthly_rate), ToInt(total_months)),
                    I(1))),
            monthly_rate),
        Add(I(1), monthly_rate))

\* analyze_income_investment_scenario(**a); a.holding_period_years * 12 is
\* a whole number >= 0; a.purchase_scenario_results is <<>> for None and
\* <<results>> for the results of analyze_housing_investment;
\* a.expense_breakdown is the address of the caller's dict, which line 366
\* stores as it is.
analyze_income_investment_scenario(a) ==
    LET total_months    == Mul(a.holding_period_years, I(12))
        monthly_savings == Sub(a.monthly_income, a.monthly_expenses)
        total_savings   == Mul(monthly_savings, total_months)
        monthly_rate    == Div(a.stock_investment_return, I(12))
        future_value ==
            IF IsZero(monthly_rate) THEN total_savings
            ELSE annuity_due_value(monthly_savings, monthly_rate,
                                   total_months)
        investment_gain == Sub(future_value, total_savings)
        comparative_data ==
            IF a.purchase_scenario_results # <<>>
            THEN LET buy == a.purchase_scenario_results[1].buy_and_sell
                 IN  <<[vs_buying_advantage |->
                            Sub(future_value, buy.total_benefit),
                        housing_benefit |-> buy.total_benefit]>>
            ELSE <<>>
    IN  Ok([inputs |->
              [monthly_income |-> a.monthly_income,
               monthly_expenses |-> a.monthly_expenses,
               monthly_savings |-> monthly_savings,
               holding_period_years |-> a.holding_period_years,
               stock_investment_return |-> a.stock_investment_return,
               expense_breakdown |-> a.expense_breakdown],
            savings |->
              [monthly_amount |-> monthly_savings,
               total_invested |-> total_savings,
               investment_value |-> future_value,
               investment_gain |-> investment_gain,
               net_worth_change |-> future_value],
            comparative |-> comparative_data])

-----------------------------------------------------------------------------
(* Inputs.  Every int below is exactly representable as a float of Prec   *)
(* bits, as the ints the program handles are in 53 bits.                  *)

\* Largest months_paid tried, besides the two-year mark.
MaxMonths == 13

\* Longest session of calls.
MaxCalls == 3

\* Calls running at the same time.
MaxThreads == 2

Principals == {I(0), I(96), I(104), I(1024), F(7, -1), I(-96)}

\* 0 and 0.0; 3/16 and 15/16, whose monthly rate is below one unit in the
\* last place of 1.0; 1.5, 3.0 and 6.
AnnualRates == {I(0), F(0, 0), F(3, -4), F(15, -4), F(3, -1), F(3, 0), I(6)}

\* 1 and 2 years, and the quarter and the half year as floats.
TermYears == {I(1), I(2), F(1, -2), F(1, -1)}

\* The terms of a balance call: also no term at all and a negative one.
BalanceYears == TermYears \cup {I(0), I(-1)}

MonthsPaid == {I(k) : k \in 0..MaxMonths} \cup {I(24), F(1, 1)}

LoanArgs ==
    [principal : Principals, annual_rate : AnnualRates, years : TermYears,
     months_paid : {I(0)}]

BalanceArgs ==
    [principal : Principals, annual_rate : AnnualRates, years : BalanceYears,
     months_paid : MonthsPaid]

ScenarioArgs ==
    [purchase_price : {I(1024), I(0)},
     down_payment_percent : {F(1, -2)},
     loan_interest_rate : {I(0), F(3, 0), F(3, -4)},
     loan_term_years : {I(1), I(2), F(1, -1)},
     holding_period_years : {I(0), I(1), I(2), F(1, 0)},
     property_tax_annual : {I(0), I(10)},
     hoa_monthly : {I(0), I(1)},
     sale_price : {I(1024), I(1536)},
     monthly_rent : {I(0), I(5), I(96)},
     stock_investment_return : {I(0), F(1, -3)},
     selling_cost_percent : {I(0), F(1, -4)}]

\* What a caller passes as purchase_scenario_results: None (<<>>) or the
\* results of a purchase analysed before.
PurchaseResults ==
    {<<>>,
     <<analyze_housing_investment(
           [purchase_price |-> I(1024), down_payment_percent |-> F(1, -2),
            loan_interest_rate |-> F(3, 0), loan_term_years |-> I(2),
            holding_period_years |-> I(1), property_tax_annual |-> I(10),
            hoa_monthly |-> I(1), sale_price |-> I(1536),
            monthly_rent |-> I(5), stock_investment_return |-> F(1, -3),
            selling_cost_percent |-> F(1, -4)]).val>>}

\* Savings of 8, 4, 0 and -4 a month, invested for up to two years at
\* the yearly returns of AnnualRates.  expense_breakdown is the address of
\* a dict, 0 for None.
IncomeArgs ==
    [monthly_income : {I(12), I(8)},
     monthly_expenses : {I(4), I(8), I(12)},
     holding_period_years : {I(0), I(1), I(2), F(1, -1)},
     stock_investment_return : AnnualRates,
     purchase_scenario_results : PurchaseResults,
     expense_breakdown : {0}]

\* Loans evaluated exactly: the loan of enter_data's defaults (70% of
\* 1,085,000 at 2.5% over 30 years) at its start and after the default
\* holding period of 5 years, and one-year loans at 0%, 2.5% and 300%.
ExactLoans ==
    [principal : {759500}, annual_rate : {<<1, 40>>}, years : {30},
     months_paid : {0, 60}]
    \cup
    [principal : {759500, 1000}, annual_rate : {<<0, 1>>, <<1, 40>>, <<3, 1>>},
     years : {1}, months_paid : 0..MaxMonths]

\* The calls concurrent threads draw from: payments (one of them raising),
\* balances with no, two, three and twelve loop iterations, at rate 0 and
\* past the term, and an analysis whose balance runs the loop.
ConcurrentCalls ==
    {[fn |-> "calculate_mortgage_payment", args |-> x] :
        x \in {y \in LoanArgs : y.principal = I(1024)
                                /\ y.annual_rate \in {F(3, -4), F(3, 0)}
                                /\ y.years = I(1)}}
    \cup
    {[fn |-> "calculate_remaining_principal", args |-> x] :
        x \in {y \in BalanceArgs :
                 /\ y.principal = I(1024)
                 /\ y.annual_rate \in {I(0), F(3, 0)}
                 /\ y.years = I(1)
                 /\ y.months_paid \in {I(0), I(2), I(3), I(12)}}}
    \cup
    {[fn |-> "analyze_housing_investment", args |-> x] :
        x \in {y \in ScenarioArgs : y.purchase_price = I(1024)
                                    /\ y.loan_interest_rate = F(3, 0)
                                    /\ y.loan_term_years = I(2)
                                    /\ y.holding_period_years = I(1)
                                    /\ y.property_tax_annual = I(10)
                                    /\ y.hoa_monthly = I(1)
                                    /\ y.sale_price = I(1536)
                                    /\ y.monthly_rent = I(5)
                                    /\ y.stock_investment_return = F(1, -3)
                                    /\ y.selling_cost_percent = F(1, -4)}}

\* The calls a session draws from.
SessionCalls ==
    {[fn |-> "calculate_mortgage_payment", args |-> x] :
        x \in {y \in LoanArgs : y.principal = I(1024)
                                /\ y.annual_rate \in {I(0), F(3, 0)}
                                /\ y.years = I(1)}}
    \cup
    {[fn |-> "calculate_remaining_principal", args |-> x] :
        x \in {y \in BalanceArgs : y.principal = I(1024)
                                   /\ y.annual_rate = F(3, 0)
                                   /\ y.years = I(1)
                                   /\ y.months_paid \in {I(1), I(12)}}}
    \cup
    {[fn |-> "analyze_housing_investment", args |-> x] :
        x \in {y \in ScenarioArgs : y.purchase_price = I(1024)
                                    /\ y.loan_interest_rate = F(3, 0)
                                    /\ y.loan_term_years = I(2)
                                    /\ y.holding_period_years = I(1)
                                    /\ y.property_tax_annual = I(10)
                                    /\ y.hoa_monthly = I(1)
                                    /\ y.sale_price = I(1536)
                                    /\ y.stock_investment_return = F(1, -3)
                                    /\ y.selling_cost_percent = F(1, -4)}}

-----------------------------------------------------------------------------
(* State *)

VARIABLES
    pc,       \* "idle", "ready" (a call is about to be made), "returned",
              \* "printed"
    fn,       \* the function called
    args,     \* its arguments
    ret,      \* the outcome of the call
    printed,  \* the outcome of print_results on ret
    log,      \* the calls completed so far: <<fn, args, ret>> records
    threads,  \* the calls running concurrently: per thread its position,
              \* its call, the balance call it is in, its local variables
              \* and its outcome
    console,  \* the terminal: the lines typed and not yet read, and the
              \* lines written to it
    files,    \* the file system: for each path what open() finds there
    heap      \* the dicts a caller holds, by address

vars == <<pc, fn, args, ret, printed, log, threads, console, files, heap>>

Pending == [exc |-> "pending", val |-> I(0)]

\* A terminal nobody typed at and nothing was written to.
NoConsole == [typed |-> <<>>, out |-> <<>>]

\* A file system with no file the call looks at.
NoFiles == <<>>

\* No dict allocated.
NoObjects == <<>>

Threads == 1..MaxThreads

\* A thread that is in no call.
Idle ==
    [pc |-> "idle", fn |-> "none", args |-> <<>>, bal |-> <<>>,
     local |-> [analysis_payment |-> I(0), monthly_rate |-> I(0),
                monthly_payment |-> I(0), remaining |-> I(0), i |-> 0],
     ret |-> Pending]

\* One call, its inputs drawn from the bounded sets.
Init ==
    /\ pc = "ready"
    /\ \/ fn = "calculate_mortgage_payment" /\ args \in LoanArgs
       \/ fn = "calculate_remaining_principal" /\ args \in BalanceArgs
       \/ fn = "analyze_housing_investment" /\ args \in ScenarioArgs
       \/ fn = "analyze_income_investment_scenario" /\ args \in IncomeArgs
    /\ ret = Pending
    /\ printed = Pending
    /\ log = <<>>
    /\ threads = [t \in Threads |-> Idle]
    /\ console = NoConsole
    /\ files = NoFiles
    /\ heap = NoObjects

\* One call to be evaluated on exact numbers.
ExactInit ==
    /\ pc = "exact"
    /\ fn \in {"calculate_mortgage_payment", "calculate_remaining_principal"}
    /\ args \in ExactLoans
    /\ fn = "calculate_mortgage_payment" => args.months_paid = 0
    /\ ret = Pending
    /\ printed = Pending
    /\ log = <<>>
    /\ threads = [t \in Threads |-> Idle]
    /\ console = NoConsole
    /\ files = NoFiles
    /\ heap = NoObjects

\* A session of calls, nothing called yet.
SessionInit ==
    /\ pc = "idle"
    /\ fn = "none"
    /\ args = <<>>
    /\ ret = Pending
    /\ printed = Pending
    /\ log = <<>>
    /\ threads = [t \in Threads |-> Idle]
    /\ console = NoConsole
    /\ files = NoFiles
    /\ heap = NoObjects

Complete(o) ==
    /\ pc' = "returned"
    /\ ret' = o
    /\ printed' = Pending
    /\ log' = Append(log, [fn |-> fn, args |-> args, ret |-> o])
    /\ UNCHANGED <<fn, args, threads, console, files, heap>>

CallMortgagePayment ==
    /\ pc = "ready"
    /\ fn = "calculate_mortgage_payment"
    /\ Complete(calculate_mortgage_payment(
                    args.principal, args.annual_rate, args.years))

CallRemainingPrincipal ==
    /\ pc = "ready"
    /\ fn = "calculate_remaining_principal"
    /\ Complete(calculate_remaining_principal(
                    args.principal, args.annual_rate, args.years,
                    args.months_paid))

\* CallAnalyze working on the arguments the previous analysis left behind.
CallAnalyze_stale_arguments ==
    /\ pc = "ready"
    /\ fn = "analyze_housing_investment"
    /\ Complete(analyze_housing_investment(
           IF log # <<>> /\ log[Len(log)].fn = "analyze_housing_investment"
           THEN log[Len(log)].args ELSE args))

CallAnalyze ==
    /\ pc = "ready"
    /\ fn = "analyze_housing_investment"
    /\ Complete(analyze_housing_investment(args))

CallIncomeScenario ==
    /\ pc = "ready"
    /\ fn = "analyze_income_investment_scenario"
    /\ Complete(analyze_income_investment_scenario(args))

\* print_results on the result of the analysis just returned.
PrintResults ==
    /\ pc = "returned"
    /\ fn = "analyze_housing_investment"
    /\ Returned(ret)
    /\ printed' = print_results(ret.val)
    /\ pc' = "printed"
    /\ UNCHANGED <<fn, args, ret, log, threads, console, files, heap>>

Evaluated(x) ==
    /\ pc' = "evaluated"
    /\ ret' = x
    /\ UNCHANGED <<fn, args, printed, log, threads, console, files, heap>>

EvalMortgagePayment ==
    /\ pc = "exact"
    /\ fn = "calculate_mortgage_payment"
    /\ Evaluated(calculate_mortgage_payment_exact(
                     args.principal, args.annual_rate, args.years))

EvalRemainingPrincipal ==
    /\ pc = "exact"
    /\ fn = "calculate_remaining_principal"
    /\ Evaluated(calculate_remaining_principal_exact(
                     args.principal, args.annual_rate, args.years,
                     args.months_paid))

\* The caller moves on to its next call.
NextCall ==
    /\ pc \in {"idle", "returned", "printed"}
    /\ Len(log) < MaxCalls
    /\ \E c \in SessionCalls :
        /\ fn' = c.fn
        /\ args' = c.args
    /\ pc' = "ready"
    /\ UNCHANGED <<ret, printed, log, threads, console, files, heap>>

\* Threads, nothing called yet.
ConcurrentInit ==
    /\ pc = "threads"
    /\ fn = "none"
    /\ args = <<>>
    /\ ret = Pending
    /\ printed = Pending
    /\ log = <<>>
    /\ threads = [t \in Threads |-> Idle]
    /\ console = NoConsole
    /\ files = NoFiles
    /\ heap = NoObjects

\* Thread t becomes th; nothing else changes.
Step(t, th) ==
    /\ threads' = [threads EXCEPT ![t] = th]
    /\ UNCHANGED <<pc, fn, args, ret, printed, log, console, files, heap>>

\* The thread after its balance call came out with outcome o: the call
\* returns, or analyze_housing_investment goes on from line 67 to its end.
AfterBalance(th, o) ==
    IF th.fn = "analyze_housing_investment" /\ Returned(o)
    THEN [th EXCEPT !.pc = "done",
                    !.ret = Ok(housing_results(th.args,
                                               th.local.analysis_payment,
                                               o.val))]
    ELSE [th EXCEPT !.pc = "done", !.ret = o]

\* A thread makes a call, its first or a further one.
ThreadCall(t) ==
    /\ pc = "threads"
    /\ threads[t].pc \in {"idle", "done"}
    /\ \E c \in ConcurrentCalls :
         Step(t, [Idle EXCEPT !.pc = "entered", !.fn = c.fn,
                              !.args = c.args])

\* calculate_mortgage_payment, lines 4-10.
ThreadPayment(t) ==
    /\ threads[t].pc = "entered"
    /\ threads[t].fn = "calculate_mortgage_payment"
    /\ Step(t, [threads[t] EXCEPT
                  !.pc = "done",
                  !.ret = calculate_mortgage_payment(
                              threads[t].args.principal,
                              threads[t].args.annual_rate,
                              threads[t].args.years)])

\* analyze_housing_investment, lines 54-67: up to its call of
\* calculate_remaining_principal.
ThreadAnalyze(t) ==
    /\ threads[t].pc = "entered"
    /\ threads[t].fn = "analyze_housing_investment"
    /\ LET a    == threads[t].args
           loan == Sub(a.purchase_price,
                       Mul(a.purchase_price, a.down_payment_percent))
           monthly_payment == calculate_mortgage_payment(
                                  loan, a.loan_interest_rate,
                                  a.loan_term_years)
       IN  IF ~Returned(monthly_payment)
           THEN Step(t, [threads[t] EXCEPT !.pc = "done",
                                           !.ret = monthly_payment])
           ELSE Step(t, [threads[t] EXCEPT
                  !.pc = "balance",
                  !.bal = [principal |-> loan,
                           annual_rate |-> a.loan_interest_rate,
                           years |-> a.loan_term_years,
                           months_paid |-> Mul(a.holding_period_years,
                                               I(12))],
                  !.local.analysis_payment = monthly_payment.val])

\* A call of calculate_remaining_principal by the thread itself.
ThreadBalance(t) ==
    /\ threads[t].pc = "entered"
    /\ threads[t].fn = "calculate_remaining_principal"
    /\ Step(t, [threads[t] EXCEPT !.pc = "balance", !.bal = threads[t].args])

\* calculate_remaining_principal, lines 14-24: up to the loop.
ThreadBalanceStart(t) ==
    /\ threads[t].pc = "balance"
    /\ LET th == threads[t]
           b  == th.bal
           monthly_rate    == Div(b.annual_rate, I(12))
           monthly_payment == calculate_mortgage_payment(
                                  b.principal, b.annual_rate, b.years)
       IN  IF Geq(b.months_paid, Mul(b.years, I(12)))
           THEN Step(t, AfterBalance(th, Ok(I(0))))
           ELSE IF ~Returned(monthly_payment)
           THEN Step(t, AfterBalance(th, monthly_payment))
           ELSE IF IsZero(monthly_rate)
           THEN Step(t, AfterBalance(th,
                    Ok(Sub(b.principal,
                           Mul(monthly_payment.val, b.months_paid)))))
           ELSE IF ~IsInt(b.months_paid)
           THEN Step(t, AfterBalance(th, Raise("TypeError")))
           ELSE Step(t, [th EXCEPT
                  !.pc = "loop",
                  !.local.monthly_rate = monthly_rate,
                  !.local.monthly_payment = monthly_payment.val,
                  !.local.remaining =
                      Mul(b.principal,
                          Pow(Add(I(1), monthly_rate), ToInt(b.months_paid))),
                  !.local.i = 0])

\* ThreadLoopStep on a remaining that all running calls share: it takes
\* the value the first thread inside the loop holds.
ThreadLoopStep_shared_remaining(t) ==
    /\ threads[t].pc = "loop"
    /\ threads[t].local.i < ToInt(threads[t].bal.months_paid)
    /\ LET th == threads[t]
           first == CHOOSE u \in Threads :
                      /\ threads[u].pc = "loop"
                      /\ \A v \in Threads : threads[v].pc = "loop" => u <= v
       IN  Step(t, [th EXCEPT
             !.local.remaining =
                 Sub(threads[first].local.remaining,
                     Mul(th.local.monthly_payment,
                         Pow(Add(I(1), th.local.monthly_rate),
                             ToInt(th.bal.months_paid) - 1 - th.local.i))),
             !.local.i = th.local.i + 1])

\* calculate_remaining_principal, lines 25-26: one iteration of the loop.
ThreadLoopStep(t) ==
    /\ threads[t].pc = "loop"
    /\ threads[t].local.i < ToInt(threads[t].bal.months_paid)
    /\ LET th == threads[t]
       IN  Step(t, [th EXCEPT
             !.local.remaining =
                 Sub(th.local.remaining,
                     Mul(th.local.monthly_payment,
                         Pow(Add(I(1), th.local.monthly_rate),
                             ToInt(th.bal.months_paid) - 1 - th.local.i))),
             !.local.i = th.local.i + 1])

\* calculate_remaining_principal, line 28, after the last iteration.
ThreadLoopExit(t) ==
    /\ threads[t].pc = "loop"
    /\ threads[t].local.i >= ToInt(threads[t].bal.months_paid)
    /\ Step(t, AfterBalance(threads[t], Ok(threads[t].local.remaining)))

Next ==
    \/ CallMortgagePayment
    \/ CallRemainingPrincipal
    \/ CallAnalyze
    \/ CallIncomeScenario
    \/ PrintResults
    \/ EvalMortgagePayment
    \/ EvalRemainingPrincipal

Spec == (Init \/ ExactInit) /\ [][Next]_vars

SessionNext ==
    \/ NextCall
    \/ CallMortgagePayment
    \/ CallRemainingPrincipal
    \/ CallAnalyze
    \/ PrintResults

SessionSpec == SessionInit /\ [][SessionNext]_vars

ConcurrentNext ==
    \E t \in Threads :
        \/ ThreadCall(t)
        \/ ThreadPayment(t)
        \/ ThreadAnalyze(t)
        \/ ThreadBalance(t)
        \/ ThreadBalanceStart(t)
        \/ ThreadLoopStep(t)
        \/ ThreadLoopExit(t)

ConcurrentSpec == ConcurrentInit /\ [][ConcurrentNext]_vars

-----------------------------------------------------------------------------
(* enter_data: eleven lines read from the terminal, then the analysis.  A  *)
(* line of text is a sequence of characters.                               *)

DigitValue ==
    "0" :> 0 @@ "1" :> 1 @@ "2" :> 2 @@ "3" :> 3 @@ "4" :> 4 @@
    "5" :> 5 @@ "6" :> 6 @@ "7" :> 7 @@ "8" :> 8 @@ "9" :> 9

\* The digits of text from position i on, after the digits n read so far,
\* decimals of them behind the point (-1: no point yet).
RECURSIVE ParseDecimal(_, _, _, _, _)
ParseDecimal(text, i, n, decimals, any_digit) ==
    IF i > Len(text)
    THEN IF any_digit
         THEN Ok(Div(I(n), I(10 ^ Max2(decimals, 0))))
         ELSE Raise("ValueError")
    ELSE IF text[i] = "."
    THEN IF decimals >= 0 THEN Raise("ValueError")
         ELSE ParseDecimal(text, i + 1, n, 0, any_digit)
    ELSE IF text[i] \in DOMAIN DigitValue
    THEN ParseDecimal(text, i + 1, 10 * n + DigitValue[text[i]],
                      IF decimals >= 0 THEN decimals + 1 ELSE decimals, TRUE)
    ELSE Raise("ValueError")

\* float(text) for a text of digits with at most one point: the nearest
\* float, or ValueError for any other text.
float(text) == ParseDecimal(text, 1, 0, -1, FALSE)

\* The parameters of analyze_housing_investment in the order lines 290-300
\* read them.
Fields ==
    <<"purchase_price", "down_payment_percent", "loan_interest_rate",
      "loan_term_years", "holding_period_years", "property_tax_annual",
      "hoa_monthly", "sale_price", "monthly_rent",
      "stock_investment_return", "selling_cost_percent">>

\* The texts lines 290-300 take for an empty line.
Defaults ==
    << <<"1", "0", "8", "5", "0", "0", "0">>, <<"3", "0">>,
       <<"2", ".", "5">>, <<"3", "0">>, <<"5">>,
       <<"1", "3", "4", "4", "0">>, <<"3", "0", "0">>,
       <<"1", "4", "0", "0", "0", "0", "0">>, <<"3", "5", "0", "0">>,
       <<"1", "0">>, <<"7">> >>

\* The fields typed in percent, which lines 291, 292, 299 and 300 divide
\* by 100.
Percentages == {2, 3, 10, 11}

\* The lines a user types: a price, a rate, a holding period and a selling
\* cost that are left empty, typed as a number or mistyped; every other
\* line left empty.
TypedLines ==
    { [k \in 1..Len(Fields) |->
          CASE k = 1 -> price
            [] k = 3 -> rate
            [] k = 5 -> holding
            [] k = 11 -> cost
            [] OTHER -> <<>>]
      : price \in {<<>>, <<"1", "0", "2", "4">>, <<"1", "k">>},
        rate \in {<<>>, <<"0">>, <<"3", "0", "0">>, <<"2", ".", "5", "%">>},
        holding \in {<<>>, <<"1">>, <<"t", "w", "o">>},
        cost \in {<<>>, <<"6", ".", "2", "5">>, <<"7", ".", "0", ".">>} }

\* The keyword arguments of lines 302-314 from the values read.
CustomScenario(v) ==
    [purchase_price |-> v[1], down_payment_percent |-> v[2],
     loan_interest_rate |-> v[3], loan_term_years |-> v[4],
     holding_period_years |-> v[5], property_tax_annual |-> v[6],
     hoa_monthly |-> v[7], sale_price |-> v[8], monthly_rent |-> v[9],
     stock_investment_return |-> v[10], selling_cost_percent |-> v[11]]

Write(line) == [console EXCEPT !.out = Append(@, line)]

\* enter_data() called at a terminal with the lines typed ahead; args
\* holds the values read so far.
EnterDataInit ==
    /\ pc = "called"
    /\ fn = "enter_data"
    /\ args = <<>>
    /\ ret = Pending
    /\ printed = Pending
    /\ log = <<>>
    /\ threads = [t \in Threads |-> Idle]
    /\ console \in [typed : TypedLines, out : {<<>>}]
    /\ files = NoFiles
    /\ heap = NoObjects

\* Lines 286-287.
PrintHeading ==
    /\ pc = "called"
    /\ console' = [console EXCEPT
                     !.out = @ \o <<"=", "Enter your own values for analysis:">>]
    /\ pc' = "try"
    /\ UNCHANGED <<fn, args, ret, printed, log, threads, files, heap>>

\* One of lines 290-300: input() reads a line, float() converts it or the
\* default, a percentage is divided by 100.
ReadField ==
    /\ pc = "try"
    /\ Len(args) < Len(Fields)
    /\ LET k     == Len(args) + 1
           line  == Head(console.typed)
           value == float(IF line # <<>> THEN line ELSE Defaults[k])
       IN  /\ console' = [typed |-> Tail(console.typed),
                          out |-> Append(console.out, Fields[k])]
           /\ IF Returned(value)
              THEN /\ args' = Append(args, IF k \in Percentages
                                           THEN Div(value.val, I(100))
                                           ELSE value.val)
                   /\ UNCHANGED <<pc, ret>>
              ELSE /\ pc' = "except"
                   /\ ret' = value
                   /\ UNCHANGED args
    /\ UNCHANGED <<fn, printed, log, threads, files, heap>>

\* Lines 302-314; an exception of the analysis is no ValueError and leaves
\* enter_data.
AnalyzeCustom ==
    /\ pc = "try"
    /\ Len(args) = Len(Fields)
    /\ ret' = analyze_housing_investment(CustomScenario(args))
    /\ pc' = IF Returned(ret') THEN "analyzed" ELSE "raised"
    /\ UNCHANGED <<fn, args, printed, log, threads, console, files, heap>>

\* Lines 316-317.
PrintCustom ==
    /\ pc = "analyzed"
    /\ console' = Write("CUSTOM SCENARIO ANALYSIS:")
    /\ printed' = print_results(ret.val)
    /\ pc' = IF Returned(printed') THEN "done" ELSE "raised"
    /\ UNCHANGED <<fn, args, ret, log, threads, files, heap>>

\* Lines 322-324: the ValueError of float() is caught, two messages are
\* printed and enter_data returns.
enter_data_catch ==
    /\ pc = "except"
    /\ console' = [console EXCEPT
                     !.out = @ \o <<"Error with input",
                                    "Using default values instead.">>]
    /\ pc' = "done"
    /\ UNCHANGED <<fn, args, ret, printed, log, threads, files, heap>>

EnterDataNext ==
    \/ PrintHeading
    \/ ReadField
    \/ AnalyzeCustom
    \/ PrintCustom
    \/ enter_data_catch

EnterDataSpec == EnterDataInit /\ [][EnterDataNext]_vars

-----------------------------------------------------------------------------
(* call_openrouter of the summarizer.  A JSON value is a record [t, v] of  *)
(* its type and its content: a string is a sequence of characters, a list  *)
(* a sequence of values, a dict a function from keys to values.            *)

JNull == [t |-> "null", v |-> <<>>]

JStr(chars) == [t |-> "str", v |-> chars]

JNum(n) == [t |-> "num", v |-> n]

JList(items) == [t |-> "list", v |-> items]

JDict(items) == [t |-> "dict", v |-> items]

NoItems == [k \in {} |-> JNull]

\* The keys lines 58-59 look up.
Choices == <<"c", "h", "o", "i", "c", "e", "s">>

Message == <<"m", "e", "s", "s", "a", "g", "e">>

Content == <<"c", "o", "n", "t", "e", "n", "t">>

\* bool(j): how an if statement takes a value.
Truthy(j) ==
    CASE j.t = "null" -> FALSE
      [] j.t = "str"  -> j.v # <<>>
      [] j.t = "num"  -> j.v # 0
      [] j.t = "list" -> j.v # <<>>
      [] j.t = "dict" -> DOMAIN j.v # {}

\* o[key] for the outcome o of the expression before the subscript; key is
\* a JStr or a JNum.
GetItem(o, key) ==
    IF ~Returned(o) THEN o
    ELSE CASE o.val.t = "dict" ->
                IF key.t = "str" /\ key.v \in DOMAIN o.val.v
                THEN Ok(o.val.v[key.v])
                ELSE Raise("KeyError")
           [] o.val.t = "list" ->
                IF key.t # "num" THEN Raise("TypeError")
                ELSE IF key.v + 1 \in DOMAIN o.val.v
                THEN Ok(o.val.v[key.v + 1])
                ELSE Raise("IndexError")
           [] o.val.t = "str" ->
                IF key.t # "num" THEN Raise("TypeError")
                ELSE IF key.v + 1 \in DOMAIN o.val.v
                THEN Ok(JStr(<<o.val.v[key.v + 1]>>))
                ELSE Raise("IndexError")
           [] OTHER -> Raise("TypeError")

\* response_json.get(key)
DictGet(response_json, key) ==
    IF response_json.t # "dict" THEN Raise("AttributeError")
    ELSE IF key \in DOMAIN response_json.v THEN Ok(response_json.v[key])
    ELSE Ok(JNull)

\* Lines 58-61 taking the last choice for the first.
choices_content_of_last(response_json) ==
    LET choices == DictGet(response_json, Choices)
    IN  IF ~Returned(choices) THEN choices
        ELSE IF Truthy(choices.val)
        THEN GetItem(GetItem(GetItem(choices,
                                     JNum(IF choices.val.t \in {"list", "str"}
                                          THEN Len(choices.val.v) - 1
                                          ELSE 0)),
                             JStr(Message)),
                     JStr(Content))
        ELSE Ok(JStr(<<>>))

\* Lines 58-61: what the if statement returns or raises.
choices_content(response_json) ==
    LET choices == DictGet(response_json, Choices)
    IN  IF ~Returned(choices) THEN choices
        ELSE IF Truthy(choices.val)
        THEN GetItem(GetItem(GetItem(choices, JNum(0)),
                             JStr(Message)),
                     JStr(Content))
        ELSE Ok(JStr(<<>>))

\* A reply of the model with the given choices.
Completion(choices) ==
    JDict(<<"i", "d">> :> JStr(<<"g", "e", "n">>) @@ Choices :> choices)

\* A choice whose message has the given content.
Choice(content) ==
    JDict(Message :> JDict(<<"r", "o", "l", "e">> :> JStr(<<"a", "i">>)
                           @@ Content :> content))

\* Bodies that parse as JSON: values that are no dict; dicts without
\* choices, such as an error report; choices that are null, empty or no
\* list; a first choice without message or content; and replies whose
\* first choice has a content: text, the empty text or null.
JsonBodies ==
    {JNull, JList(<<>>), JStr(<<"o", "k">>), JNum(0),
     JDict(NoItems),
     JDict(<<"e", "r", "r", "o", "r">> :> JDict(<<"c", "o", "d", "e">> :> JNum(429))),
     Completion(JNull), Completion(JList(<<>>)), Completion(JStr(<<>>)),
     Completion(JNum(0)), Completion(JNum(1)), Completion(JDict(NoItems)),
     Completion(JStr(<<"n", "o">>)),
     Completion(JDict(<<"0">> :> Choice(JStr(<<"H", "i">>)))),
     Completion(JList(<<JNull>>)),
     Completion(JList(<<JStr(<<"H", "i">>)>>)),
     Completion(JList(<<JDict(NoItems)>>)),
     Completion(JList(<<JDict(Message :> JNull)>>)),
     Completion(JList(<<JDict(Message :> JDict(NoItems))>>)),
     Completion(JList(<<Choice(JStr(<<"H", "i">>))>>)),
     Completion(JList(<<Choice(JStr(<<>>))>>)),
     Completion(JList(<<Choice(JNull)>>)),
     Completion(JList(<<Choice(JStr(<<"H", "i">>)), Choice(JStr(<<"Y", "o">>))>>)),
     Completion(JList(<<Choice(JStr(<<>>)), Choice(JStr(<<"Y", "o">>))>>))}

\* What requests.post comes back with: an exception (no connection, a
\* timeout), or a response with a status and a body that is JSON or not.
Responses ==
    {[kind |-> "exception", status |-> 0, body |-> JNull]}
      \cup [kind : {"text"}, status : {200, 502}, body : {JNull}]
      \cup [kind : {"json"}, status : {200, 500}, body : JsonBodies]

\* The data passed: messages as call_llm builds them, or an object that
\* json.dumps cannot serialize.
RequestData == {"messages", "not serializable"}

\* call_openrouter(data) about to run.
OpenRouterInit ==
    /\ pc = "ready"
    /\ fn = "call_openrouter"
    /\ args \in [data : RequestData, response : {JNull},
                 response_json : {JNull}]
    /\ ret = Pending
    /\ printed = Pending
    /\ log = <<>>
    /\ threads = [t \in Threads |-> Idle]
    /\ console = NoConsole
    /\ files = NoFiles
    /\ heap = NoObjects

\* Lines 62-64 entered with exception e.
Except(e) ==
    /\ pc' = "except"
    /\ ret' = Raise(e)

\* Lines 47-55: json.dumps(data), then the request.
Post ==
    /\ pc = "ready"
    /\ fn = "call_openrouter"
    /\ IF args.data = "not serializable"
       THEN Except("TypeError") /\ UNCHANGED args
       ELSE \E response \in Responses :
              /\ args' = [args EXCEPT !.response = response]
              /\ IF response.kind = "exception"
                 THEN Except("RequestException")
                 ELSE pc' = "posted" /\ UNCHANGED ret
    /\ UNCHANGED <<fn, printed, log, threads, console, files, heap>>

\* Lines 56-57: the body is parsed and printed.
ParseBody ==
    /\ pc = "posted"
    /\ IF args.response.kind = "json"
       THEN /\ args' = [args EXCEPT !.response_json = args.response.body]
            /\ console' = Write("response_json")
            /\ pc' = "parsed"
            /\ UNCHANGED ret
       ELSE /\ Except("JSONDecodeError")
            /\ UNCHANGED <<args, console>>
    /\ UNCHANGED <<fn, printed, log, threads, files, heap>>

\* Lines 58-61.
ReturnContent ==
    /\ pc = "parsed"
    /\ LET content == choices_content(args.response_json)
       IN  IF Returned(content)
           THEN pc' = "returned" /\ ret' = content
           ELSE Except(content.exc)
    /\ UNCHANGED <<fn, args, printed, log, threads, console, files, heap>>

\* Lines 62-64: whatever Exception was raised is printed and the empty
\* string returned.
ReturnEmpty ==
    /\ pc = "except"
    /\ fn = "call_openrouter"
    /\ console' = Write("Error")
    /\ ret' = Ok(JStr(<<>>))
    /\ pc' = "returned"
    /\ UNCHANGED <<fn, args, printed, log, threads, files, heap>>

OpenRouterNext ==
    \/ Post
    \/ ParseBody
    \/ ReturnContent
    \/ ReturnEmpty

OpenRouterSpec == OpenRouterInit /\ [][OpenRouterNext]_vars

\* call_openrouter(data) from call to return, given what requests.post
\* comes back with: the value returned.
call_openrouter(response) ==
    IF response.kind # "json" THEN JStr(<<>>)
    ELSE LET content == choices_content(response.body)
         IN  IF Returned(content) THEN content.val ELSE JStr(<<>>)

-----------------------------------------------------------------------------
(* summarize_file of the summarizer.  A file is a record of what open()    *)
(* finds at its path: whether it exists, whether its bytes are UTF-8,      *)
(* whether it may be written, and its text.  The prompts of prompts.py are *)
(* named, not spelled out.                                                 *)

\* Longest content of the input file.
MaxContent == 4

Letters == <<"a", "b", "c", "d", "e", "f", "g", "h">>

Contents == {SubSeq(Letters, 1, n) : n \in 0..MaxContent}

File(text) == [exists |-> TRUE, utf8 |-> TRUE, writable |-> TRUE, text |-> text]

NoFile == [exists |-> FALSE, utf8 |-> TRUE, writable |-> TRUE, text |-> <<>>]

\* ChunksFrom leaving out a last chunk shorter than chunk_size.
RECURSIVE ChunksFrom_whole_only(_, _, _)
ChunksFrom_whole_only(content, i, chunk_size) ==
    IF i + chunk_size > Len(content) THEN <<>>
    ELSE <<SubSeq(content, i + 1, i + chunk_size)>>
         \o ChunksFrom_whole_only(content, i + chunk_size, chunk_size)

\* The chunks of line 27 from index i on: content[i:i+chunk_size] for i in
\* range(i, len(content), chunk_size), with chunk_size >= 1.
RECURSIVE ChunksFrom(_, _, _)
ChunksFrom(content, i, chunk_size) ==
    IF i >= Len(content) THEN <<>>
    ELSE <<SubSeq(content, i + 1,
                  IF i + chunk_size < Len(content)
                  THEN i + chunk_size ELSE Len(content))>>
         \o ChunksFrom(content, i + chunk_size, chunk_size)

\* Lines 26-29: the chunks, or the ValueError of range() for a step of 0;
\* a negative step gives an empty range.
split_content(content, chunking, chunk_size) ==
    IF ~chunking THEN Ok(<<content>>)
    ELSE IF chunk_size = 0 THEN Raise("ValueError")
    ELSE IF chunk_size < 0 THEN Ok(<<>>)
    ELSE Ok(ChunksFrom(content, 0, chunk_size))

\* Lines 59-66: the request for one chunk.  The user message is
\* podcast_prompt_2 with the highlights and the chunk filled in.
request_data(a, chunk) ==
    [model |-> a.model,
     messages |-> <<[role |-> "system", content |-> <<"system_prompt_2">>],
                    [role |-> "user",
                     content |-> <<"podcast_prompt_2", "highlights", chunk>>]>>]

\* What a request of summarize_file comes back as: every value
\* call_openrouter returns.
Summaries == {call_openrouter(response) : response \in Responses}

\* The calls of summarize_file: the input file missing, not UTF-8 or with
\* a text; the output file missing, present or not writable; the building
\* of the prompt running out of memory at chunk fault_at (0: never).  The
\* last four fields are the locals: the content read, the chunks, the
\* summaries returned and the number of them written.
SummarizeArgs ==
    [sys_prompt : {"system_prompt", "system_prompt_2"},
     file_path : {"in.txt"},
     output_file : {"out.md"},
     chunk_size : (-1)..(MaxContent - 1),
     model : {"claude", "llama"},
     chunking : BOOLEAN,
     fault_at : {0, 2},
     content : {<<>>}, chunks : {<<>>}, summaries : {<<>>}, written : {0}]

SummarizeFiles ==
    [{"in.txt"} -> {NoFile, [File(<<>>) EXCEPT !.utf8 = FALSE]}
                     \cup {File(text) : text \in Contents}]
    \X [{"out.md"} -> {NoFile, File(<<"o", "l", "d">>),
                       [File(<<"o", "l", "d">>) EXCEPT !.writable = FALSE]}]

SummarizeInit ==
    /\ pc = "ready"
    /\ fn = "summarize_file"
    /\ args \in SummarizeArgs
    /\ ret = Pending
    /\ printed = Pending
    /\ log = <<>>
    /\ threads = [t \in Threads |-> Idle]
    /\ console = NoConsole
    /\ \E f \in SummarizeFiles : files = f[1] @@ f[2]
    /\ heap = NoObjects

\* Lines 79-80 entered with exception e.
Caught(e) ==
    /\ pc' = "caught"
    /\ ret' = Raise(e)

\* Lines 22-23.
ReadFile ==
    /\ pc = "ready"
    /\ fn = "summarize_file"
    /\ LET file == files[args.file_path]
       IN  IF ~file.exists
           THEN Caught("FileNotFoundError") /\ UNCHANGED args
           ELSE IF ~file.utf8
           THEN Caught("UnicodeDecodeError") /\ UNCHANGED args
           ELSE /\ args' = [args EXCEPT !.content = file.text]
                /\ pc' = "split"
                /\ UNCHANGED ret
    /\ UNCHANGED <<fn, printed, log, threads, console, files, heap>>

\* Lines 26-33.
SplitContent ==
    /\ pc = "split"
    /\ LET chunks == split_content(args.content, args.chunking,
                                   args.chunk_size)
       IN  IF Returned(chunks)
           THEN /\ args' = [args EXCEPT !.chunks = chunks.val]
                /\ pc' = "loop"
                /\ UNCHANGED ret
           ELSE Caught(chunks.exc) /\ UNCHANGED args
    /\ UNCHANGED <<fn, printed, log, threads, console, files, heap>>

\* SendRequest with the output file opened for writing before the loop's
\* first request.
SendRequest_output_opened_first ==
    /\ pc = "loop"
    /\ Len(args.summaries) < Len(args.chunks)
    /\ console' = Write("Summarizing chunk")
    /\ files' = IF files[args.output_file].writable
                THEN [files EXCEPT ![args.output_file] = File(<<>>)]
                ELSE files
    /\ IF args.fault_at = Len(args.summaries) + 1
       THEN Caught("MemoryError") /\ UNCHANGED log
       ELSE /\ log' = Append(log,
                        [fn |-> "call_openrouter",
                         args |-> request_data(
                                     args,
                                     args.chunks[Len(args.summaries) + 1]),
                         ret |-> Pending])
            /\ pc' = "request"
            /\ UNCHANGED ret
    /\ UNCHANGED <<fn, args, printed, threads, heap>>

\* Lines 56-67 up to the request: the next chunk is announced, its prompt
\* is built and the request is sent.
SendRequest ==
    /\ pc = "loop"
    /\ Len(args.summaries) < Len(args.chunks)
    /\ console' = Write("Summarizing chunk")
    /\ IF args.fault_at = Len(args.summaries) + 1
       THEN Caught("MemoryError") /\ UNCHANGED log
       ELSE /\ log' = Append(log,
                        [fn |-> "call_openrouter",
                         args |-> request_data(
                                     args,
                                     args.chunks[Len(args.summaries) + 1]),
                         ret |-> Pending])
            /\ pc' = "request"
            /\ UNCHANGED ret
    /\ UNCHANGED <<fn, args, printed, threads, files, heap>>

\* Lines 67-69: call_openrouter returns and its value joins the summaries.
RequestReturns ==
    /\ pc = "request"
    /\ \E summary \in Summaries :
         /\ log' = [log EXCEPT ![Len(log)].ret = Ok(summary)]
         /\ args' = [args EXCEPT !.summaries = Append(@, summary)]
    /\ pc' = "loop"
    /\ UNCHANGED <<fn, ret, printed, threads, console, files, heap>>

\* Line 72: the output file is opened for writing, which empties it.
OpenOutput ==
    /\ pc = "loop"
    /\ Len(args.summaries) = Len(args.chunks)
    /\ IF files[args.output_file].writable
       THEN /\ files' = [files EXCEPT ![args.output_file] = File(<<>>)]
            /\ pc' = "write"
            /\ UNCHANGED ret
       ELSE /\ Caught("PermissionError")
            /\ UNCHANGED files
    /\ UNCHANGED <<fn, args, printed, log, threads, console, heap>>

\* Lines 73-75, one iteration: the next summary is written; write() takes
\* a str only.
WriteSummary ==
    /\ pc = "write"
    /\ args.written < Len(args.summaries)
    /\ LET summary == args.summaries[args.written + 1]
       IN  IF summary.t = "str"
           THEN /\ files' = [files EXCEPT
                               ![args.output_file].text = @ \o summary.v]
                /\ args' = [args EXCEPT !.written = @ + 1]
                /\ UNCHANGED <<pc, ret>>
           ELSE /\ Caught("TypeError")
                /\ UNCHANGED <<files, args>>
    /\ UNCHANGED <<fn, printed, log, threads, console, heap>>

\* Lines 75-77: the file is closed and the success reported.
ReportSaved ==
    /\ pc = "write"
    /\ args.written = Len(args.summaries)
    /\ console' = Write("Summaries have been saved")
    /\ ret' = Ok(JNull)
    /\ pc' = "returned"
    /\ UNCHANGED <<fn, args, printed, log, threads, files, heap>>

\* Lines 79-80: the exception is printed and summarize_file returns None.
ReportError ==
    /\ pc = "caught"
    /\ console' = Write("Error in summarize_file")
    /\ ret' = Ok(JNull)
    /\ pc' = "returned"
    /\ UNCHANGED <<fn, args, printed, log, threads, files, heap>>

SummarizeNext ==
    \/ ReadFile
    \/ SplitContent
    \/ SendRequest
    \/ RequestReturns
    \/ OpenOutput
    \/ WriteSummary
    \/ ReportSaved
    \/ ReportError

SummarizeSpec == SummarizeInit /\ [][SummarizeNext]_vars

-----------------------------------------------------------------------------
(* The income scenarios of the main script (lines 673-719): one dict of    *)
(* expenses, passed to two calls and changed between them.  A dict is a    *)
(* function from its keys to numbers and lives in the heap at its address. *)

\* sum(d.values()) over the keys given.
RECURSIVE SumValues(_, _)
SumValues(d, keys) ==
    IF keys = {} THEN I(0)
    ELSE LET key == CHOOSE k \in keys : TRUE
         IN  Add(d[key], SumValues(d, keys \ {key}))

\* What a reader of the result finds in it: the dict at the address the
\* result holds, as the heap has it now.
Seen(result, objects) ==
    [result EXCEPT !.inputs.expense_breakdown =
        IF @ = 0 THEN <<>> ELSE objects[@]]

\* The script's variables before line 676: incomes, holding periods and
\* returns, the purchase analysed before, the rent and the other expenses
\* of the dict literal, and the rent of line 707.
MainVariables ==
    [monthly_income : {I(10000), I(8000)},
     holding_period_years : {I(1), I(2)},
     stock_investment_return : {I(0), F(3, 0)},
     purchase_scenario_results : PurchaseResults,
     rent : {I(3500), I(1300)},
     others : {I(4000), I(0)},
     lower_rent : {I(1300)},
     expense_breakdown : {0},
     total_monthly_expenses : {I(0)}]

MainInit ==
    /\ pc = "line 676"
    /\ fn = "__main__"
    /\ args \in MainVariables
    /\ ret = Pending
    /\ printed = Pending
    /\ log = <<>>
    /\ threads = [t \in Threads |-> Idle]
    /\ console = NoConsole
    /\ files = NoFiles
    /\ heap = NoObjects

\* Lines 676-689: the dict is allocated and its values are summed.
BuildBreakdown ==
    /\ pc = "line 676"
    /\ LET d == [k \in {"Rent", "Others"} |->
                    IF k = "Rent" THEN args.rent ELSE args.others]
       IN  /\ heap' = Append(heap, d)
           /\ args' = [args EXCEPT
                         !.expense_breakdown = Len(heap) + 1,
                         !.total_monthly_expenses = SumValues(d, DOMAIN d)]
    /\ pc' = "line 691"
    /\ UNCHANGED <<fn, ret, printed, log, threads, console, files>>

\* The keyword arguments of lines 691-698 and 710-717.
IncomeCall ==
    [monthly_income |-> args.monthly_income,
     monthly_expenses |-> args.total_monthly_expenses,
     holding_period_years |-> args.holding_period_years,
     stock_investment_return |-> args.stock_investment_return,
     purchase_scenario_results |-> args.purchase_scenario_results,
     expense_breakdown |-> args.expense_breakdown]

\* Lines 691-698 and 710-717: the call and its result; the log keeps what
\* the result read as when it was returned.
AnalyzeIncome ==
    /\ pc \in {"line 691", "line 710"}
    /\ ret' = analyze_income_investment_scenario(IncomeCall)
    /\ log' = Append(log, [fn |-> "analyze_income_investment_scenario",
                           args |-> IncomeCall, ret |-> ret',
                           seen |-> Seen(ret'.val, heap)])
    /\ pc' = IF pc = "line 691" THEN "line 707" ELSE "line 719"
    /\ UNCHANGED <<fn, args, printed, threads, console, files, heap>>

\* Lines 707-708: the rent in the dict is lowered and the sum taken again.
LowerRent ==
    /\ pc = "line 707"
    /\ LET d == [heap[args.expense_breakdown] EXCEPT
                   !["Rent"] = args.lower_rent]
       IN  /\ heap' = [heap EXCEPT ![args.expense_breakdown] = d]
           /\ args' = [args EXCEPT
                         !.total_monthly_expenses = SumValues(d, DOMAIN d)]
    /\ pc' = "line 710"
    /\ UNCHANGED <<fn, ret, printed, log, threads, console, files>>

MainNext ==
    \/ BuildBreakdown
    \/ AnalyzeIncome
    \/ LowerRent

MainSpec == MainInit /\ [][MainNext]_vars

-----------------------------------------------------------------------------
(* Claims *)

Positive(a) == a.m > 0

NonNegative(a) == a.m >= 0

\* c * 2^-Prec * |a|, for an odd c: c relative rounding errors of a.
RoundingErrors(c, a) ==
    IF a.m = 0 THEN a
    ELSE [t |-> "float", m |-> c * Abs(a.m), e |-> a.e - Prec]

AbsNum(a) == [a EXCEPT !.m = Abs(a.m)]

PaymentReturned == pc = "returned" /\ fn = "calculate_mortgage_payment"

BalanceReturned == pc = "returned" /\ fn = "calculate_remaining_principal"

\* C1: calculate_remaining_principal returns 0 whenever
\* months_paid >= years * 12, whatever the principal and the rate.
C1_ZeroFromTermEnd ==
    (BalanceReturned /\ Geq(args.months_paid, Mul(args.years, I(12))))
        => ret = Ok(I(0))

\* A loan at a positive rate asked exactly at the end of its term.
C1_Witness ==
    /\ BalanceReturned
    /\ NumEq(args.months_paid, Mul(args.years, I(12)))
    /\ Positive(args.annual_rate)
    /\ Positive(args.principal)
    /\ ret = Ok(I(0))

\* C2: with no payment made, calculate_remaining_principal(P, r, Y, 0)
\* is P for every P, r >= 0 and Y > 0.
C2_NothingPaidLeavesPrincipal ==
    (BalanceReturned /\ IsZero(args.months_paid)
        /\ NonNegative(args.annual_rate) /\ Positive(args.years))
        => (Returned(ret) /\ NumEq(ret.val, args.principal))

\* C3: for P > 0, r > 0 and Y > 0, the payment the function returns,
\* times 12, times Y, is at least P.
C3_PaymentsCoverPrincipal ==
    (PaymentReturned /\ Returned(ret) /\ Positive(args.principal)
        /\ Positive(args.annual_rate) /\ Positive(args.years))
        => Geq(Mul(Mul(ret.val, I(12)), args.years), args.principal)

\* P - calculate_mortgage_payment(P, r, Y) * m
LinearBalance ==
    Sub(args.principal,
        Mul(calculate_mortgage_payment(
                args.principal, args.annual_rate, args.years).val,
            args.months_paid))

ZeroRateCase ==
    /\ BalanceReturned
    /\ IsZero(args.annual_rate)
    /\ Positive(args.years)
    /\ IsInt(args.months_paid)
    /\ NonNegative(args.months_paid)
    /\ Geq(Mul(args.years, I(12)), args.months_paid)

\* C4, as claimed: at rate 0 and for every integer 0 <= m <= 12 * Y the
\* balance returned equals P - payment * m exactly.
C4_ZeroRateLinearToTermEnd ==
    ZeroRateCase => (Returned(ret) /\ NumEq(ret.val, LinearBalance))

\* C4, amended: at rate 0 the balance returned equals P - payment * m
\* exactly for every integer 0 <= m < 12 * Y; at m = 12 * Y it is 0, and
\* P - payment * m is within three relative rounding errors of P from 0.
C4_ZeroRateLinearBeforeTermEnd ==
    ZeroRateCase =>
        /\ Returned(ret)
        /\ IF Gt(Mul(args.years, I(12)), args.months_paid)
           THEN NumEq(ret.val, LinearBalance)
           ELSE /\ IsZero(ret.val)
                /\ Geq(RoundingErrors(3, args.principal), AbsNum(LinearBalance))

\* The end of the term at rate 0, where P - payment * m is not 0.
C4_Witness ==
    /\ ZeroRateCase
    /\ NumEq(args.months_paid, Mul(args.years, I(12)))
    /\ ret = Ok(I(0))
    /\ ~IsZero(LinearBalance)

\* principal * (r * (1+r)^n) / ((1+r)^n - 1), or principal / n when r = 0,
\* evaluated as the function's expressions are.
AnnuityFormula ==
    LET r == Div(args.annual_rate, I(12))
        n == Mul(args.years, I(12))
        g == Pow(Add(I(1), r), ToInt(n))
    IN  IF IsZero(r) THEN Div(args.principal, n)
        ELSE Div(Mul(args.principal, Mul(r, g)), Sub(g, I(1)))

\* (1+r)^n - 1 evaluates to zero although r is not zero.
DivisorVanishes ==
    LET r == Div(args.annual_rate, I(12))
        n == Mul(args.years, I(12))
    IN  ~IsZero(r) /\ NumEq(Pow(Add(I(1), r), ToInt(n)), I(1))

\* C5: for every principal >= 0 and years > 0, calculate_mortgage_payment
\* returns principal / n at monthly rate 0 and
\* principal * r * (1+r)^n / ((1+r)^n - 1) otherwise, unrounded, with
\* r = annual_rate / 12 and n = years * 12.
C5_ReturnsAnnuityFormula ==
    (PaymentReturned /\ NonNegative(args.principal) /\ Positive(args.years))
        => (Returned(ret) /\ ret = Ok(AnnuityFormula))

\* A positive rate at which no payment is returned.
C5_NoPaymentReturned ==
    /\ PaymentReturned
    /\ Positive(args.principal)
    /\ Positive(args.annual_rate)
    /\ Positive(args.years)
    /\ DivisorVanishes
    /\ ret = Raise("ZeroDivisionError")

\* P * (1+r)^m - payment * ((1+r)^m - 1) / r
ClosedFormBalance ==
    LET r       == Div(args.annual_rate, I(12))
        growth  == Pow(Add(I(1), r), ToInt(args.months_paid))
        payment == calculate_mortgage_payment(
                       args.principal, args.annual_rate, args.years).val
    IN  Sub(Mul(args.principal, growth),
            Div(Mul(payment, Sub(growth, I(1))), r))

\* A balance the summation loop returned.
SummationCase ==
    /\ BalanceReturned
    /\ Returned(ret)
    /\ Positive(args.annual_rate)
    /\ IsInt(args.months_paid)
    /\ NonNegative(args.months_paid)
    /\ Gt(Mul(args.years, I(12)), args.months_paid)

ScenarioReturned ==
    /\ pc \in {"returned", "printed"}
    /\ fn = "analyze_housing_investment"
    /\ Returned(ret)

\* C8: in every result, net_from_sale, equity_gain and total_benefit are
\* the stated combinations of the inputs, the monthly payment on the loan
\* and the remaining balance after holding_period_years * 12 months,
\* also when the holding period is longer than the loan term.
C8_BuyAndSellFigures ==
    ScenarioReturned =>
        LET b       == ret.val.buy_and_sell
            down    == Mul(args.purchase_price, args.down_payment_percent)
            loan    == Sub(args.purchase_price, down)
            months  == Mul(args.holding_period_years, I(12))
            payment == calculate_mortgage_payment(
                           loan, args.loan_interest_rate,
                           args.loan_term_years).val
            balance == calculate_remaining_principal(
                           loan, args.loan_interest_rate,
                           args.loan_term_years, months).val
            net     == Sub(Sub(args.sale_price,
                               Mul(args.sale_price, args.selling_cost_percent)),
                           balance)
            spent   == Add(Add(Add(down, Mul(payment, months)),
                               Mul(args.property_tax_annual,
                                   args.holding_period_years)),
                           Mul(args.hoa_monthly, months))
        IN  /\ NumEq(b.net_from_sale, net)
            /\ NumEq(b.equity_gain, Sub(net, spent))
            /\ NumEq(b.total_benefit,
                     Add(Sub(net, spent), Mul(args.monthly_rent, months)))

\* A property held beyond the loan term: nothing is owed, and a payment
\* is counted for each of the months held.
C8_Witness ==
    /\ ScenarioReturned
    /\ Gt(Mul(args.holding_period_years, I(12)),
          Mul(args.loan_term_years, I(12)))
    /\ IsZero(ret.val.buy_and_sell.remaining_balance)
    /\ Positive(args.hoa_monthly)
    /\ Positive(ret.val.inputs.monthly_payment)
    /\ NumEq(ret.val.buy_and_sell.mortgage_payments,
             Mul(ret.val.inputs.monthly_payment,
                 Mul(args.holding_period_years, I(12))))

\* The three rent figures of a result, as C9 states them.
RentFigures ==
    LET down      == Mul(args.purchase_price, args.down_payment_percent)
        rent_paid == Mul(args.monthly_rent,
                         Mul(args.holding_period_years, I(12)))
        value     == Mul(down, Pow(Add(I(1), args.stock_investment_return),
                                   ToInt(args.holding_period_years)))
    IN  /\ NumEq(ret.val.rent_only.net_worth_change, Neg(rent_paid))
        /\ NumEq(ret.val.rent_and_invest.investment_value, value)
        /\ NumEq(ret.val.rent_and_invest.net_worth_change,
                 Sub(Sub(value, down), rent_paid))

\* rent_and_invest.net_worth_change - rent_only.net_worth_change, as
\* print_results computes it.
InvestVsRent ==
    Sub(ret.val.rent_and_invest.net_worth_change,
        ret.val.rent_only.net_worth_change)

\* x * 2^16 as an integer, for x with at most 16 fractional bits.
Scaled(a) == a.m * Pow2(a.e + 16)

\* C9, as claimed: the three rent figures are as stated, and the
\* difference of the two net worth changes equals the investment gain.
C9_RentFiguresAndDifference ==
    ScenarioReturned =>
        /\ RentFigures
        /\ NumEq(InvestVsRent, ret.val.rent_and_invest.investment_gain)

\* C9, amended: the three rent figures are as stated; the difference of
\* the two net worth changes is the investment gain up to three relative
\* rounding errors of |investment gain| + total rent.
C9_RentFiguresAndDifferenceRounded ==
    ScenarioReturned =>
        /\ RentFigures
        /\ Pow2(Prec) * Abs(Scaled(InvestVsRent)
                            - Scaled(ret.val.rent_and_invest.investment_gain))
             <= 3 * (Abs(Scaled(ret.val.rent_and_invest.investment_gain))
                     + Abs(Scaled(ret.val.rent_only.total_rent)))

\* A result whose difference of net worth changes is not the gain.
C9_Witness ==
    /\ ScenarioReturned
    /\ RentFigures
    /\ Positive(ret.val.rent_and_invest.investment_gain)
    /\ ~NumEq(InvestVsRent, ret.val.rent_and_invest.investment_gain)

\* The scenario with the largest figure, the first of them on a tie.
FirstLargest(buy, rent, invest) ==
    IF Geq(buy, rent) /\ Geq(buy, invest) THEN "Buy and Sell"
    ELSE IF Geq(rent, invest) THEN "Rent Only"
    ELSE "Rent and Invest"

BestPrinted == pc = "printed" /\ Returned(printed)

\* C10: the best option print_results reports is the scenario with the
\* largest of buy-and-sell total_benefit, rent-only net_worth_change and
\* rent-and-invest net_worth_change; on a tie for the largest it is the
\* first of them in that order.
C10_BestOptionIsFirstLargest ==
    BestPrinted =>
        /\ printed.val[1] =
             FirstLargest(ret.val.buy_and_sell.total_benefit,
                          ret.val.rent_only.net_worth_change,
                          ret.val.rent_and_invest.net_worth_change)
        /\ printed.val[2] \in {ret.val.buy_and_sell.total_benefit,
                               ret.val.rent_only.net_worth_change,
                               ret.val.rent_and_invest.net_worth_change}

\* Renting and renting-and-investing tie above buying: "Rent Only" wins.
C10_Witness ==
    /\ BestPrinted
    /\ NumEq(ret.val.rent_only.net_worth_change,
             ret.val.rent_and_invest.net_worth_change)
    /\ Gt(ret.val.rent_only.net_worth_change,
          ret.val.buy_and_sell.total_benefit)
    /\ printed.val[1] = "Rent Only"

\* All three figures tie: "Buy and Sell" is reported.
C10_ThreeWayTie ==
    /\ BestPrinted
    /\ NumEq(ret.val.rent_only.net_worth_change,
             ret.val.rent_and_invest.net_worth_change)
    /\ NumEq(ret.val.rent_only.net_worth_change,
             ret.val.buy_and_sell.total_benefit)
    /\ printed.val[1] = "Buy and Sell"

\* C11: for every integer months_paid >= 0, every rate >= 0, every
\* principal and every term (zero and negative terms included),
\* calculate_remaining_principal returns a number.
C11_BalanceAlwaysReturned ==
    (BalanceReturned /\ IsInt(args.months_paid)
        /\ NonNegative(args.months_paid) /\ NonNegative(args.annual_rate))
        => Returned(ret)

\* A term of zero or fewer years: the early return gives 0.
C11_NoTermReturnsZero ==
    /\ BalanceReturned
    /\ ~Positive(args.years)
    /\ Positive(args.annual_rate)
    /\ IsInt(args.months_paid)
    /\ ret = Ok(I(0))

ScenarioCompleted ==
    pc = "returned" /\ fn = "analyze_housing_investment"

\* C12: for every loan term > 0, rate >= 0 and holding period >= 0,
\* whatever the type of holding_period_years * 12,
\* analyze_housing_investment completes and returns a result.
C12_AnalysisAlwaysReturned ==
    (ScenarioCompleted /\ Positive(args.loan_term_years)
        /\ NonNegative(args.loan_interest_rate)
        /\ NonNegative(args.holding_period_years))
        => Returned(ret)

\* A float holding period inside the term at a positive rate: range()
\* refuses the float month count.
C12_FloatMonthsRefused ==
    /\ ScenarioCompleted
    /\ ~IsInt(args.holding_period_years)
    /\ args.loan_interest_rate = F(3, 0)
    /\ Gt(Mul(args.loan_term_years, I(12)),
          Mul(args.holding_period_years, I(12)))
    /\ ret = Raise("TypeError")

\* cents - 1/2 <= 100 * x < cents + 1/2, for an exact number x.
ToTheCent(x, cents) ==
    /\ ~x.neg
    /\ BigCmp(BigMulSmall(x.num, 200, 0),
              BigMul(x.den, BigFromInt(2 * cents - 1))) >= 0
    /\ BigCmp(BigMulSmall(x.num, 200, 0),
              BigMul(x.den, BigFromInt(2 * cents + 1))) < 0

\* |x - whole| <= 1, for an exact number x and whole >= 1.
WithinOneOf(x, whole) ==
    /\ ~x.neg
    /\ BigCmp(x.num, BigMul(x.den, BigFromInt(whole - 1))) >= 0
    /\ BigCmp(x.num, BigMul(x.den, BigFromInt(whole + 1))) <= 0

\* The loan of the worked example: 759,500 at 2.5% over 30 years.
WorkedLoan ==
    /\ pc = "evaluated"
    /\ args.principal = 759500
    /\ args.annual_rate = <<1, 40>>
    /\ args.years = 30

WorkedPayment == WorkedLoan /\ fn = "calculate_mortgage_payment"

WorkedBalance ==
    /\ WorkedLoan
    /\ fn = "calculate_remaining_principal"
    /\ args.months_paid = 60

\* C13, as claimed: the monthly payment of the worked loan is 3,000.93 to
\* the cent.
C13_PaymentIs300093 == WorkedPayment => ToTheCent(ret, 300093)

\* C13, amended: the monthly payment of the worked loan is 3,000.94 to the
\* cent.
C13_PaymentIs300094 == WorkedPayment => ToTheCent(ret, 300094)

\* The payment of the worked loan, between 3,000.94 and 3,000.95.
C13_Witness ==
    /\ WorkedPayment
    /\ BigCmp(BigMulSmall(ret.num, 100, 0),
              BigMul(ret.den, BigFromInt(300094))) > 0
    /\ BigCmp(BigMulSmall(ret.num, 100, 0),
              BigMul(ret.den, BigFromInt(300095))) < 0

\* C14, as claimed: after 60 months the balance of the worked loan is
\* within 1 of 684,715.
C14_BalanceNear684715 == WorkedBalance => WithinOneOf(ret, 684715)

\* C14, amended: after 60 months the balance of the worked loan is within
\* 1 of 668,933.
C14_BalanceNear668933 == WorkedBalance => WithinOneOf(ret, 668933)

\* The balance of the worked loan after 60 months, between 668,932 and
\* 668,933.
C14_Witness ==
    /\ WorkedBalance
    /\ BigCmp(ret.num, BigMul(ret.den, BigFromInt(668932))) > 0
    /\ BigCmp(ret.num, BigMul(ret.den, BigFromInt(668933))) < 0

\* The outcome of a call that runs alone.
Alone(f, a) ==
    IF f = "calculate_mortgage_payment"
    THEN calculate_mortgage_payment(a.principal, a.annual_rate, a.years)
    ELSE IF f = "calculate_remaining_principal"
    THEN calculate_remaining_principal(a.principal, a.annual_rate, a.years,
                                       a.months_paid)
    ELSE analyze_housing_investment(a)

\* C15: under every interleaving of the steps of concurrent and repeated
\* calls of the engine functions, each call ends with the outcome it has
\* when it runs alone.
C15_ConcurrentCallsAsAlone ==
    \A t \in Threads :
        threads[t].pc = "done"
            => threads[t].ret = Alone(threads[t].fn, threads[t].args)

\* Two calls inside the loop together, one of which went on to return
\* while the other is still in its second iteration.
C15_Witness ==
    /\ threads[1].pc = "done"
    /\ threads[1].fn = "calculate_remaining_principal"
    /\ threads[1].local.i = 3
    /\ Returned(threads[1].ret)
    /\ threads[2].pc = "loop"
    /\ threads[2].fn = "analyze_housing_investment"
    /\ threads[2].local.i = 1

\* A balance returned for economically consistent inputs within the term.
ConsistentBalance ==
    /\ BalanceReturned
    /\ Returned(ret)
    /\ NonNegative(args.principal)
    /\ NonNegative(args.annual_rate)
    /\ Positive(args.years)
    /\ IsInt(args.months_paid)
    /\ NonNegative(args.months_paid)
    /\ Geq(Mul(args.years, I(12)), args.months_paid)

\* The outcome of the same call one month later.
MonthLater ==
    calculate_remaining_principal(args.principal, args.annual_rate,
                                  args.years, Add(args.months_paid, I(1)))

\* C16: for P >= 0, r >= 0, Y > 0 and integer 0 <= m <= 12 * Y the balance
\* is not negative, is not above P, and is not below the balance one month
\* later.
C16_BalanceBoundedAndFalling ==
    ConsistentBalance =>
        /\ NonNegative(ret.val)
        /\ Geq(args.principal, ret.val)
        /\ (Gt(Mul(args.years, I(12)), args.months_paid)
               /\ Returned(MonthLater))
             => Geq(ret.val, MonthLater.val)

\* A balance below zero returned within the term of a consistent loan.
C16_NegativeBalance ==
    /\ ConsistentBalance
    /\ Gt(Mul(args.years, I(12)), args.months_paid)
    /\ ~NonNegative(ret.val)

IncomeReturned ==
    /\ pc = "returned"
    /\ fn = "analyze_income_investment_scenario"
    /\ Returned(ret)

\* The sum over j = k..n of deposit * (1 + r)^j, term by term.
RECURSIVE DepositsCompounded(_, _, _, _)
DepositsCompounded(deposit, r, k, n) ==
    IF k > n THEN I(0)
    ELSE Add(Mul(deposit, Pow(Add(I(1), r), k)),
             DepositsCompounded(deposit, r, k + 1, n))

\* C17: at rate 0 the investment value is monthly_savings * n, n being
\* holding_period_years * 12, and the gain is 0; at a monthly rate r > 0 it
\* is monthly_savings * ((1+r)^n - 1) / r * (1+r), which equals the sum over
\* k = 1..n of monthly_savings * (1+r)^k; in both cases the gain is the
\* value less monthly_savings * n.
C17_ValueIsDepositsCompounded ==
    IncomeReturned =>
        LET n == Mul(args.holding_period_years, I(12))
            r == Div(args.stock_investment_return, I(12))
            deposit == Sub(args.monthly_income, args.monthly_expenses)
            savings == ret.val.savings
        IN  /\ IsZero(r) =>
                 /\ NumEq(savings.investment_value, Mul(deposit, n))
                 /\ IsZero(savings.investment_gain)
            /\ Positive(r) =>
                 /\ NumEq(savings.investment_value,
                          annuity_due_value(deposit, r, n))
                 /\ NumEq(savings.investment_value,
                          DepositsCompounded(deposit, r, 1, ToInt(n)))
            /\ NumEq(savings.investment_gain,
                     Sub(savings.investment_value, Mul(deposit, n)))

\* Positive savings invested for a year or more at a positive return and
\* valued at nothing.
C17_DepositsValuedAtNothing ==
    /\ IncomeReturned
    /\ Positive(args.stock_investment_return)
    /\ Positive(ret.val.savings.monthly_amount)
    /\ Geq(args.holding_period_years, I(1))
    /\ IsZero(ret.val.savings.investment_value)
    /\ NumEq(ret.val.savings.investment_gain,
             Neg(ret.val.savings.total_invested))

\* enter_data has returned after reporting an input error.
InputErrorReported ==
    /\ fn = "enter_data"
    /\ pc = "done"
    /\ \E i \in 1..Len(console.out) : console.out[i] = "Error with input"

\* C18: when a typed value cannot be parsed as a number, enter_data reports
\* the input error and then uses the default values: the analysis is
\* carried out with the defaults and printed.
C18_DefaultsAnalysedAfterBadInput ==
    InputErrorReported =>
        /\ Returned(ret)
        /\ \A k \in {1, 4, 5, 8, 9} :
               ret.val.inputs[Fields[k]] = float(Defaults[k]).val
        /\ Returned(printed)

\* enter_data has returned after an unparsable line: both messages are
\* the last thing written, no analysis was made and nothing was printed
\* of one.
C18_NothingAnalysedAfterBadInput ==
    /\ InputErrorReported
    /\ console.out[Len(console.out)] = "Using default values instead."
    /\ ret = Raise("ValueError")
    /\ printed = Pending
    /\ \A i \in 1..Len(console.out) :
           console.out[i] # "CUSTOM SCENARIO ANALYSIS:"

\* A balance asked at the very end of the term of a loan at a positive
\* rate whose payment can be computed.
AtTermEnd ==
    /\ BalanceReturned
    /\ Positive(args.annual_rate)
    /\ Positive(args.years)
    /\ IsInt(args.months_paid)
    /\ NumEq(args.months_paid, Mul(args.years, I(12)))
    /\ Returned(calculate_mortgage_payment(args.principal, args.annual_rate,
                                           args.years))

\* The balance one month before the end of the term, grown by a month of
\* interest.
LastBalanceGrown ==
    Mul(calculate_remaining_principal(args.principal, args.annual_rate,
                                      args.years,
                                      Sub(args.months_paid, I(1))).val,
        Add(I(1), Div(args.annual_rate, I(12))))

\* C19: for r > 0 the summation of calculate_remaining_principal taken at
\* months_paid = years * 12, where the function returns 0 early, is itself
\* 0, and the balance one month earlier, grown by one month of interest,
\* is exactly one monthly payment.
C19_NoJumpAtTermEnd ==
    AtTermEnd =>
        /\ ret = Ok(I(0))
        /\ IsZero(AmortizedBalance(args.principal, args.annual_rate,
                                   args.years, args.months_paid).val)
        /\ NumEq(LastBalanceGrown,
                 calculate_mortgage_payment(args.principal, args.annual_rate,
                                            args.years).val)

\* A loan with a positive payment that the summation has overpaid a month
\* before its last payment.
C19_OverpaidBeforeLastPayment ==
    /\ AtTermEnd
    /\ Positive(args.principal)
    /\ ret = Ok(I(0))
    /\ Positive(calculate_mortgage_payment(args.principal, args.annual_rate,
                                           args.years).val)
    /\ ~NonNegative(LastBalanceGrown)

OpenRouterReturned == fn = "call_openrouter" /\ pc = "returned"

\* The request was not answered: the data could not be sent or
\* requests.post raised.
RequestFailed ==
    args.data = "not serializable" \/ args.response.kind = "exception"

BodyNotJson == ~RequestFailed /\ args.response.kind = "text"

\* The 'choices' entry of the body received, null if it has none.
ChoicesReceived ==
    LET body == args.response.body
    IN  IF body.t = "dict" /\ Choices \in DOMAIN body.v
        THEN body.v[Choices] ELSE JNull

\* A JSON body without 'choices' or with an empty one.
NoChoices ==
    /\ ~RequestFailed
    /\ args.response.kind = "json"
    /\ ChoicesReceived \in {JNull, JList(<<>>)}

\* A JSON body whose first choice has a message with a content.
HasContent ==
    /\ ~RequestFailed
    /\ args.response.kind = "json"
    /\ ChoicesReceived.t = "list"
    /\ ChoicesReceived.v # <<>>
    /\ ChoicesReceived.v[1].t = "dict"
    /\ Message \in DOMAIN ChoicesReceived.v[1].v
    /\ ChoicesReceived.v[1].v[Message].t = "dict"
    /\ Content \in DOMAIN ChoicesReceived.v[1].v[Message].v

\* What the call returns when the model answers with the empty text.
EmptyAnswer == choices_content(Completion(JList(<<Choice(JStr(<<>>))>>)))

\* C20: call_openrouter never raises.  When the request fails, the body is
\* not JSON, or the body has no 'choices' or an empty one, it returns the
\* empty string, which is what it returns for a model that answered with
\* the empty text; when the first choice has a message content, it returns
\* that content.
C20_EmptyStringOnEveryFailure ==
    OpenRouterReturned =>
        /\ Returned(ret)
        /\ (RequestFailed \/ BodyNotJson \/ NoChoices) =>
               (ret = Ok(JStr(<<>>)) /\ ret = EmptyAnswer)
        /\ HasContent =>
               ret = Ok(ChoicesReceived.v[1].v[Message].v[Content])

\* A request that failed and came back as the empty string, the error
\* printed.
C20_Witness ==
    /\ OpenRouterReturned
    /\ args.data = "messages"
    /\ args.response.kind = "exception"
    /\ ret = Ok(JStr(<<>>))
    /\ console.out = <<"Error">>

\* summarize_file past the splitting of the content.
ContentSplit == fn = "summarize_file" /\ pc \in {"loop", "request", "write"}

\* The sequences of a sequence joined in order.
RECURSIVE Concatenation(_)
Concatenation(seqs) ==
    IF seqs = <<>> THEN <<>> ELSE Head(seqs) \o Concatenation(Tail(seqs))

\* C21: with chunking on and chunk_size >= 1 the chunks joined in order are
\* the content, every chunk but the last has chunk_size characters, the
\* last has between 1 and chunk_size, and empty content gives no chunk;
\* with chunking off the content is the one chunk, also when it is empty.
C21_ChunksPartitionContent ==
    ContentSplit =>
        /\ (args.chunking /\ args.chunk_size >= 1) =>
             /\ Concatenation(args.chunks) = args.content
             /\ \A k \in 1..(Len(args.chunks) - 1) :
                    Len(args.chunks[k]) = args.chunk_size
             /\ args.chunks # <<>> =>
                    Len(args.chunks[Len(args.chunks)]) \in 1..args.chunk_size
             /\ args.content = <<>> => args.chunks = <<>>
        /\ ~args.chunking => args.chunks = <<args.content>>

\* Four characters split by threes: a full chunk and a last one of one
\* character.
C21_Witness ==
    /\ ContentSplit
    /\ args.chunking
    /\ args.chunk_size = 3
    /\ args.content = <<"a", "b", "c", "d">>
    /\ args.chunks = << <<"a", "b", "c">>, <<"d">> >>

\* The output file is as it was before the call: absent, or with its old
\* text.
OutputUntouched ==
    \/ ~files[args.output_file].exists
    \/ files[args.output_file].text = <<"o", "l", "d">>

\* The texts of the summaries returned so far, joined in chunk order.
SummariesJoined ==
    Concatenation([k \in DOMAIN args.summaries |-> args.summaries[k].v])

\* C22: summarize_file makes one request per chunk, in chunk order, each
\* after the one before has returned; the output file is opened only after
\* the last request has returned, and when summarize_file returns it
\* holds the returned summaries joined in chunk order.
C22_RequestsInOrderThenOutput ==
    fn = "summarize_file" =>
        /\ Len(log) <= Len(args.chunks)
        /\ \A k \in 1..Len(log) :
               /\ log[k].args = request_data(args, args.chunks[k])
               /\ k < Len(log) => Returned(log[k].ret)
        /\ ~OutputUntouched =>
               /\ Len(log) = Len(args.chunks)
               /\ \A k \in 1..Len(log) : log[k].ret = Ok(args.summaries[k])
        /\ (pc = "returned" /\ ~OutputUntouched) =>
               files[args.output_file].text = SummariesJoined

\* summarize_file has returned after every request was answered, the
\* first with a null content and a later one with a text, and the output
\* file holds none of the text.
C22_SummaryAfterNullLost ==
    /\ fn = "summarize_file"
    /\ pc = "returned"
    /\ Len(args.summaries) = 2
    /\ args.summaries[1] = JNull
    /\ args.summaries[2] = JStr(<<"H", "i">>)
    /\ files[args.output_file] = File(<<>>)
    /\ console.out[Len(console.out)] = "Error in summarize_file"

\* The input file cannot be read: it is missing or its bytes are not
\* UTF-8.
InputUnreadable ==
    ~files[args.file_path].exists \/ ~files[args.file_path].utf8

\* The request loop was left by an exception before its last chunk.
LoopAbandoned ==
    /\ pc \in {"caught", "returned"}
    /\ Len(args.summaries) < Len(args.chunks)

\* C23: summarize_file never lets an exception out: it ends by returning
\* None.  When the input file cannot be read, no request is sent and the
\* output file is as before; when an exception leaves the request loop,
\* the output file is as before.
C23_ErrorsCaughtOutputKept ==
    fn = "summarize_file" =>
        /\ pc \in {"ready", "split", "loop", "request", "write", "caught",
                   "returned"}
        /\ pc = "returned" => ret = Ok(JNull)
        /\ pc = "caught" => ~Returned(ret)
        /\ InputUnreadable => (log = <<>> /\ OutputUntouched)
        /\ LoopAbandoned => OutputUntouched

\* The prompt of the second chunk could not be built: the first request
\* was answered, the error was reported, summarize_file returned and the
\* old output is still there.
C23_Witness ==
    /\ fn = "summarize_file"
    /\ pc = "returned"
    /\ LoopAbandoned
    /\ Len(log) = 1
    /\ Returned(log[1].ret)
    /\ files[args.output_file] = File(<<"o", "l", "d">>)
    /\ console.out[Len(console.out)] = "Error in summarize_file"

\* C25: every request summarize_file sends has the caller's sys_prompt as
\* the content of its system message and the caller's model as its model.
C25_RequestsCarrySysPromptAndModel ==
    fn = "summarize_file" =>
        \A k \in 1..Len(log) :
            /\ log[k].args.model = args.model
            /\ log[k].args.messages[1].role = "system"
            /\ log[k].args.messages[1].content = <<args.sys_prompt>>

\* A request sent for a caller who passed system_prompt: its model is the
\* caller's and its system message is system_prompt_2.
C25_SysPromptReplaced ==
    /\ fn = "summarize_file"
    /\ args.sys_prompt = "system_prompt"
    /\ log # <<>>
    /\ log[1].args.model = args.model
    /\ log[1].args.messages[1] =
           [role |-> "system", content |-> <<"system_prompt_2">>]

\* C24: a result analyze_income_investment_scenario has returned keeps
\* reading as it did when it was returned, whatever the caller does
\* afterwards to the expense_breakdown dict it passed in.
C24_ResultIsSnapshot ==
    fn = "__main__" =>
        \A k \in 1..Len(log) : Seen(log[k].ret.val, heap) = log[k].seen

\* The first scenario's result after line 707: its breakdown reads a rent
\* of 1300 while its monthly_expenses is still the sum with the rent of
\* 3500.
C24_EarlierResultChanged ==
    /\ fn = "__main__"
    /\ pc \in {"line 710", "line 719"}
    /\ log[1].seen.inputs.expense_breakdown["Rent"] = I(3500)
    /\ Seen(log[1].ret.val, heap).inputs.expense_breakdown["Rent"] = I(1300)
    /\ log[1].ret.val.inputs.monthly_expenses
         = Add(I(3500), log[1].seen.inputs.expense_breakdown["Others"])

====
